---- MODULE Spec2Model ----
(***************************************************************************)
(* Model of the privacy-screen application (src/privacy-screen-app):       *)
(* the Settings Store (ConfigManager), the Effect Applier (ScreenProtector)*)
(* the Frame Source (CameraManager) with its capture loop, the Face        *)
(* Locator's threshold, and the Protection Controller (PrivacyScreenApp)   *)
(* with its decision loop.                                                 *)
(*                                                                         *)
(* Numbers that are floats in the source are kept as hundredths:           *)
(* 0.8 is 80, 1.0 - s is 100 - s.                                          *)
(***************************************************************************)
EXTENDS Integers, Sequences, FiniteSets, TLC

(***************************************************************************)
(* Bounds of the model.                                                    *)
(***************************************************************************)
\* frames the capture device delivers in one run
MaxFrames == 2
\* start_protection calls in one run (each creates one loop thread)
MaxStarts == 1

None == "None"

(***************************************************************************)
(* Python dictionaries: a dict is a function from its keys.                *)
(***************************************************************************)
DictGet(d, k, dflt) == IF k \in DOMAIN d THEN d[k] ELSE dflt

DictSet(d, k, v) == [x \in (DOMAIN d) \cup {k} |-> IF x = k THEN v ELSE d[x]]

\* dict.update restricted to the keys of u, as merge_dict does for leaves
DictUpdate(d, u) ==
    [x \in (DOMAIN d) \cup (DOMAIN u) |-> IF x \in DOMAIN u THEN u[x] ELSE d[x]]

(***************************************************************************)
(* ConfigManager._get_default_config: the sections the application reads.  *)
(***************************************************************************)
Sections == {"protection", "camera", "face_detection", "gaze_detection"}

DefaultSection(s) ==
    CASE s = "protection" ->
           [mode |-> "blur", sensitivity |-> 80, reaction_time |-> 200,
            blur_intensity |-> 15, pixel_block_size |-> 20,
            brightness_reduction |-> 70, overlay_opacity |-> 80]
      [] s = "camera" ->
           [device_index |-> 0, resolution |-> "720p", fps |-> 30,
            flip_horizontal |-> TRUE, auto_focus |-> TRUE]
      [] s = "face_detection" ->
           [confidence_threshold |-> 70, tracking_enabled |-> TRUE,
            max_faces |-> 5, model |-> "hog", recognition_tolerance |-> 60]
      [] s = "gaze_detection" ->
           [enabled |-> TRUE, precision |-> 80, tolerance_degrees |-> 15,
            calibration_points |-> 9]

\* The section dicts are objects: _get_default_config builds one per section.
\* A reference is a number; the default table's dicts take 1..4.
DefaultRef(s) ==
    CASE s = "protection" -> 1
      [] s = "camera" -> 2
      [] s = "face_detection" -> 3
      [] s = "gaze_detection" -> 4

\* the smallest reference no root uses
NewRef(used) == CHOOSE r \in 1..(Cardinality(used) + 1) :
                   r \notin used /\ \A q \in 1..(r - 1) : q \in used

(***************************************************************************)
(* User configuration files the application may find at start-up           *)
(* (yaml.safe_load of the file): a mapping of sections to mappings.        *)
(***************************************************************************)
EmptyDict == [x \in {} |-> 0]

UserFiles ==
    { EmptyDict,
      [face_detection |-> [recognition_enabled |-> TRUE]],
      [gaze_detection |-> [enabled |-> FALSE], camera |-> [fps |-> 0]],
      [protection |-> [mode |-> "invalid", sensitivity |-> 50],
       gaze_detection |-> [tolerance_degrees |-> 45]] }

\* a merge that replaces a section the user file names by the file's section
merge_heap_replacing(h, base, user) ==
    [r \in DOMAIN h |->
        IF \E s \in DOMAIN user : s \in DOMAIN base /\ base[s] = r
        THEN LET s == CHOOSE s \in DOMAIN user : s \in DOMAIN base /\ base[s] = r
             IN user[s]
        ELSE h[r]]

\* ConfigManager._merge_configs(default, user): merged = default.copy() is a
\* shallow copy, so merge_dict updates the default table's own section dicts
\* in place.  Returns the heap after the merge; the merged top level maps
\* every section to the same object as the default table.
merge_heap(h, base, user) ==
    [r \in DOMAIN h |->
        IF \E s \in DOMAIN user : s \in DOMAIN base /\ base[s] = r
        THEN LET s == CHOOSE s \in DOMAIN user : s \in DOMAIN base /\ base[s] = r
             IN DictUpdate(h[r], user[s])
        ELSE h[r]]

(***************************************************************************)
(* State.                                                                  *)
(***************************************************************************)
VARIABLES
    \* ConfigManager: the dict objects, and the three top-level dicts that
    \* refer to them: ConfigManager.config, ConfigManager.default_config and
    \* PrivacyScreenApp.config (the copy get_config() returned at start-up)
    heap, cm_config, default_config, app_config,
    \* ScreenProtector
    current_mode, sp_is_protected,
    \* FaceDetector, GazeTracker, CameraManager attributes read at construction
    confidence_threshold, known_faces, gt_enabled, fps,
    \* PrivacyScreenApp
    is_running, is_protected, protection_thread,
    \* the decision loop threads (_protection_loop), one per start_protection
    loop,
    \* CameraManager
    cam_is_running, camera, capture_thread, current_frame,
    \* the capture loop threads (_capture_loop), one per CameraManager.start
    capt,
    \* the capture device: frames delivered so far
    device,
    \* the caller of the public operations: where it is inside
    \* stop_protection, and the last call with its return value
    call,
    \* start_protection calls made so far
    starts,
    \* history of the decision step: the last tick's user_present (last) and
    \* the Effect Applier call it made (effect)
    tick,
    \* history: the sensitivity most recently accepted by set_sensitivity, or
    \* the loaded configuration value
    accepted_sensitivity,
    \* history of the frame buffer: the frames stored, in the order of the
    \* stores, and what the last get_frame returned (the loop's local frame)
    stores, got,
    \* the components' own state, followed by the component specifications
    \* (SpecConfig, SpecApplier, SpecDetector, SpecGaze): the document at
    \* ConfigManager.config_path, FaceDetector.tracked_faces,
    \* GazeTracker.gaze_history, and the last call made on the component with
    \* what it was given and what it returned
    saved, tracked_faces, gaze_history, obs,
    \* the contact-form bot (bot.py, followed by SpecBot): the state the
    \* ConversationHandler keeps for the user's conversation, the user's
    \* context.user_data, and the rows of the worksheet
    conv_state, user_data, sheet,
    \* CameraManager.frame_lock (followed by SpecLock): the thread that holds
    \* it
    frame_lock

configVars == <<heap, cm_config, default_config, app_config>>
applierVars == <<current_mode, sp_is_protected>>
detectorVars == <<confidence_threshold, known_faces, gt_enabled, fps>>
appVars == <<is_running, is_protected, protection_thread, loop>>
cameraVars == <<cam_is_running, camera, capture_thread, current_frame,
                capt, device>>
histVars == <<tick, accepted_sensitivity, stores, got>>
botVars == <<conv_state, user_data, sheet>>
compVars == <<saved, tracked_faces, gaze_history, obs, botVars, frame_lock>>
vars == <<configVars, applierVars, detectorVars, appVars, cameraVars,
          call, starts, histVars, compVars>>

ThreadIds == 1..MaxStarts

(***************************************************************************)
(* ScreenProtector                                                         *)
(***************************************************************************)
valid_modes == {"blur", "pixelate", "overlay", "brightness", "stealth"}

\* apply_protection: every handler is a stub returning True, and an unknown
\* mode falls back to blur: the result is [success, is_protected].
apply_protection(mode, protected) ==
    [success |-> TRUE, is_protected |-> TRUE]

\* remove_protection: success stays False for an unknown mode.
remove_protection(mode, protected) ==
    IF mode \in valid_modes
    THEN [success |-> TRUE, is_protected |-> FALSE]
    ELSE [success |-> FALSE, is_protected |-> protected]

\* a set_protection_mode that keeps the mode it had
sp_keep_protection_mode(mode, old_mode, protected) ==
    [ret |-> TRUE, current_mode |-> old_mode, is_protected |-> protected]

\* ScreenProtector.set_protection_mode: [ret, current_mode, is_protected]
sp_set_protection_mode(mode, old_mode, protected) ==
    IF mode \notin valid_modes
    THEN [ret |-> FALSE, current_mode |-> old_mode, is_protected |-> protected]
    ELSE LET p1 == IF protected
                   THEN remove_protection(old_mode, protected).is_protected
                   ELSE protected
             p2 == IF p1 THEN apply_protection(mode, p1).is_protected ELSE p1
         IN [ret |-> TRUE, current_mode |-> mode, is_protected |-> p2]

(***************************************************************************)
(* ConfigManager                                                           *)
(***************************************************************************)
\* the objects some top-level dict still refers to
Live(cm, dflt, app) ==
    {cm[s] : s \in DOMAIN cm} \cup {dflt[s] : s \in DOMAIN dflt}
        \cup {app[s] : s \in DOMAIN app}

\* set_value(key_path, value) for a key path without a dot, value a dict:
\* keys[:-1] is empty, so config[key] = value binds the section to the new
\* object.  update_config({section: value}) calls it once and saves.
\* Returns [heap, cm_config].
update_config(h, cm, dflt, app, section, value) ==
    LET rest == [s \in (DOMAIN cm) \ {section} |-> cm[s]]
        r == NewRef(Live(rest, dflt, app))
        cm2 == [s \in (DOMAIN cm) \cup {section} |->
                    IF s = section THEN r ELSE cm[s]]
        keep == Live(cm2, dflt, app)
    IN [heap |-> [x \in keep |-> IF x = r THEN value ELSE h[x]],
        cm_config |-> cm2]

\* get_value("section.key") finds a value (does not fall to its default)
has_value(h, cm, section, key) ==
    section \in DOMAIN cm /\ key \in DOMAIN h[cm[section]]

\* get_value("section.key") where it finds one
get_value(h, cm, section, key) == h[cm[section]][key]

\* self.config[section] of PrivacyScreenApp: its own top-level copy
AppSection(s) == heap[app_config[s]]

(***************************************************************************)
(* Initial state: the constructors of PrivacyScreenApp.__init__.           *)
(***************************************************************************)
NoGaze == <<>>
NoFaces == <<>>
NoFrame == 0

NewLoop == [pc |-> "none", raised |-> FALSE]
NewCapt == [pc |-> "none", frame |-> NoFrame, raised |-> FALSE, stored |-> 0]

NoCall == [pc |-> "idle", op |-> "none", ret |-> FALSE]

\* Spec follows the controller: it reads the configuration file at start-up
\* only and takes the detectors' results as inputs, so it does not follow
\* the file, the tracker records or the gaze history
Unfollowed == "unfollowed"
NoTick == [effect |-> "none", last |-> "none"]

\* what the application finds when it is constructed: the user configuration
\* file, and whether data/known_faces.pkl holds encodings
Installations ==
    {[user |-> u, known |-> "recognition_enabled" \in
                               DOMAIN DictGet(u, "face_detection", EmptyDict)] :
        u \in UserFiles}

\* load_config: a missing or empty file gives default_config.copy(), a file
\* with content is merged; either way every section of ConfigManager.config is
\* the default table's own dict, and get_config() copies the top level only.
Init ==
    \E inst \in Installations :
        LET dflt == [s \in Sections |-> DefaultRef(s)]
            h0 == [r \in {DefaultRef(s) : s \in Sections} |->
                      DefaultSection(CHOOSE s \in Sections : DefaultRef(s) = r)]
            h1 == merge_heap(h0, dflt, inst.user)
            known == inst.known
        IN /\ default_config = dflt
           /\ cm_config = dflt
           /\ app_config = dflt
           /\ heap = h1
           /\ current_mode = DictGet(h1[dflt["protection"]], "mode", "blur")
           /\ sp_is_protected = FALSE
           /\ confidence_threshold =
                  DictGet(h1[dflt["face_detection"]], "confidence_threshold", 70)
           /\ known_faces = known
           /\ gt_enabled = DictGet(h1[dflt["gaze_detection"]], "enabled", TRUE)
           /\ fps = DictGet(h1[dflt["camera"]], "fps", 30)
    /\ is_running = FALSE
    /\ is_protected = FALSE
    /\ protection_thread = 0
    /\ loop = [t \in ThreadIds |-> NewLoop]
    /\ cam_is_running = FALSE
    /\ camera = None
    /\ capture_thread = 0
    /\ current_frame = NoFrame
    /\ stores = <<>>
    /\ got = NoFrame
    /\ capt = [t \in ThreadIds |-> NewCapt]
    /\ device = 0
    /\ call = NoCall
    /\ starts = 0
    /\ tick = NoTick
    /\ accepted_sensitivity = AppSection("protection")["sensitivity"]
    /\ saved = Unfollowed
    /\ tracked_faces = Unfollowed
    /\ gaze_history = Unfollowed
    /\ obs = Unfollowed
    /\ conv_state = Unfollowed
    /\ user_data = Unfollowed
    /\ sheet = Unfollowed
    /\ frame_lock = Unfollowed

(***************************************************************************)
(* FaceDetector and GazeTracker, as the decision loop uses them.           *)
(***************************************************************************)
\* a bounding box is <<x, y, w, h>>; the boxes of the frames: Box2 is 60 px
\* from Box1, Box3 is 300 px from it
Box1 == <<0, 0, 20, 20>>
Box2 == <<60, 0, 20, 20>>
Box3 == <<300, 0, 20, 20>>

\* a detection of the primary detector: its score and its box
Detection(score, bbox) == [score |-> score, bbox |-> bbox]

\* what the two detectors may report for a frame of the decision loop: the
\* primary detector's detections in output order, and the fallback's
\* rectangles
PrimaryOutputs == {<<>>, <<Detection(75, Box1)>>}
FallbackOutputs == {<<>>, <<Box1>>}
\* what track_gaze may return when it returns an estimate
GazeSamples == {<<50, 50>>, <<0, 0>>}

\* FaceData.tracking_id = None
NoId == -1

\* FaceData(bbox, confidence, landmarks, detection_method): tracking_id has
\* its default
FaceData(bbox, c, m) ==
    [bbox |-> bbox, confidence |-> c, detection_method |-> m,
     tracking_id |-> NoId]

\* a primary path that keeps every detection
detect_with_mediapipe_unfiltered(primary, threshold) ==
    [i \in 1..Len(primary) |->
        FaceData(primary[i].bbox, primary[i].score, "mediapipe")]

\* _detect_with_mediapipe: the detections at or above the threshold
detect_with_mediapipe(primary, threshold) ==
    LET kept == SelectSeq(primary, LAMBDA d : d.score >= threshold)
    IN [i \in 1..Len(kept) |->
           FaceData(kept[i].bbox, kept[i].score, "mediapipe")]

\* _detect_with_opencv: every rectangle, with the fixed confidence 0.8
detect_with_opencv(rects) ==
    [i \in 1..Len(rects) |-> FaceData(rects[i], 80, "opencv")]

\* the center _update_face_tracking computes for a face
Center(bbox) == <<bbox[1] + bbox[3] \div 2, bbox[2] + bbox[4] \div 2>>

\* the square of the distance np.sqrt(...) of two points
Distance2(p, q) == (p[1] - q[1]) * (p[1] - q[1]) + (p[2] - q[2]) * (p[2] - q[2])

\* the 100px threshold, squared
TrackRadius2 == 10000

\* the search for the closest current face: the index of the face whose
\* center is nearest to the record's and less than 100 px from it (the first
\* of equally near ones), 0 when there is none; best is the index so far
RECURSIVE closest_face(_, _, _, _)
closest_face(faces, center, i, best) ==
    IF i > Len(faces) THEN best
    ELSE LET d == Distance2(Center(faces[i].bbox), center)
             nearer == best = 0
                         \/ d < Distance2(Center(faces[best].bbox), center)
         IN closest_face(faces, center, i + 1,
                         IF nearer /\ d < TrackRadius2 THEN i ELSE best)

\* the lost-frames count above which a record is deactivated
LostLimit == 10

\* the loop over self.tracked_faces.items(), in insertion order, which is
\* the order of the ids: the active record id takes the closest face, whose
\* tracking_id it sets, or counts a lost frame.  [faces, tracked]
RECURSIVE update_tracked(_, _, _)
update_tracked(faces, tracked, id) ==
    IF id \notin DOMAIN tracked THEN [faces |-> faces, tracked |-> tracked]
    ELSE IF ~tracked[id].active THEN update_tracked(faces, tracked, id + 1)
    ELSE LET i == closest_face(faces, tracked[id].center, 1, 0)
         IN IF i # 0
            THEN update_tracked(
                     [faces EXCEPT ![i].tracking_id = id],
                     [tracked EXCEPT
                         ![id].center = <<faces[i].bbox[1], faces[i].bbox[2]>>,
                         ![id].frames_active = @ + 1],
                     id + 1)
            ELSE update_tracked(
                     faces,
                     [tracked EXCEPT
                         ![id].frames_lost = @ + 1,
                         ![id].active = tracked[id].frames_lost + 1 <= LostLimit],
                     id + 1)

\* _get_next_tracking_id: the smallest id no record has
get_next_tracking_id(tracked) ==
    CHOOSE n \in 0..Cardinality(DOMAIN tracked) :
        n \notin DOMAIN tracked /\ \A m \in 0..(n - 1) : m \in DOMAIN tracked

\* hasattr(face, 'tracking_id'): FaceData declares the field, so every face
\* has the attribute
has_tracking_id(face) == "tracking_id" \in DOMAIN face

\* the loop that adds new faces to the tracking: a face without the
\* attribute gets the next id and a record.  [faces, tracked]
RECURSIVE add_new_faces(_, _, _)
add_new_faces(faces, tracked, i) ==
    IF i > Len(faces) THEN [faces |-> faces, tracked |-> tracked]
    ELSE IF has_tracking_id(faces[i]) THEN add_new_faces(faces, tracked, i + 1)
    ELSE LET id == get_next_tracking_id(tracked)
             record == [center |-> Center(faces[i].bbox), frames_active |-> 1,
                        frames_lost |-> 0, active |-> TRUE]
         IN add_new_faces(
                [faces EXCEPT ![i] =
                    [k \in (DOMAIN faces[i]) \cup {"tracking_id"} |->
                        IF k = "tracking_id" THEN id ELSE faces[i][k]]],
                [n \in (DOMAIN tracked) \cup {id} |->
                    IF n = id THEN record ELSE tracked[n]],
                i + 1)

\* _update_face_tracking: [faces, tracked]
update_face_tracking(faces, tracked) ==
    LET u == update_tracked(faces, tracked, 0)
    IN add_new_faces(u.faces, u.tracked, 1)

\* a limit that keeps the most confident faces
limit_faces_best(faces, max_faces) ==
    LET n == Len(faces)
        order == CHOOSE f \in [1..n -> 1..n] :
                     /\ \A i, j \in 1..n : i # j => f[i] # f[j]
                     /\ \A i, j \in 1..n :
                            i < j => faces[f[i]].confidence >= faces[f[j]].confidence
    IN IF n > max_faces THEN [i \in 1..max_faces |-> faces[order[i]]] ELSE faces

\* if len(faces) > self.max_faces: faces = faces[:self.max_faces]
limit_faces(faces, max_faces) ==
    IF Len(faces) > max_faces THEN SubSeq(faces, 1, max_faces) ELSE faces

\* a detect_faces that runs both detectors and returns the faces of both
detect_faces_both(primary, fallback, threshold, max_faces, tracking_enabled, tracked) ==
    LET faces == detect_with_mediapipe(primary, threshold)
                     \o detect_with_opencv(fallback)
        t == IF tracking_enabled THEN update_face_tracking(faces, tracked)
             ELSE [faces |-> faces, tracked |-> tracked]
    IN [faces |-> limit_faces(t.faces, max_faces),
        tracked |-> t.tracked,
        fallback_ran |-> TRUE]

\* detect_faces: primary, then the fallback if the primary found none, then
\* the tracking, then the cap at max_faces: the faces returned, the tracker
\* records afterwards, and whether the fallback detector was run
detect_faces(primary, fallback, threshold, max_faces, tracking_enabled, tracked) ==
    LET mp == detect_with_mediapipe(primary, threshold)
        faces == IF mp = <<>> THEN detect_with_opencv(fallback) ELSE mp
        t == IF tracking_enabled THEN update_face_tracking(faces, tracked)
             ELSE [faces |-> faces, tracked |-> tracked]
    IN [faces |-> limit_faces(t.faces, max_faces),
        tracked |-> t.tracked,
        fallback_ran |-> mp = <<>>]

\* an extraction that has the frame and cuts the face out of it
extract_face_region_found(face) == "image"

\* recognize_face: None without known faces; otherwise _extract_face_region
\* returns None, so None again
extract_face_region(face) == None

recognize_face(known, face) ==
    IF ~known THEN None
    ELSE IF extract_face_region(face) = None THEN None ELSE "name"

\* is_gaze_valid: |x - 0.5| <= tolerance/90 and |y - 0.5| <= tolerance/90
Abs(x) == IF x < 0 THEN -x ELSE x

\* a validity test with a circular region of the same radius
is_gaze_valid_circular(gaze, tolerance) ==
    IF gaze = NoGaze THEN FALSE
    ELSE ((gaze[1] - 50) * (gaze[1] - 50) + (gaze[2] - 50) * (gaze[2] - 50))
             * 8100 <= tolerance * tolerance * 10000

is_gaze_valid(gaze, tolerance) ==
    IF gaze = NoGaze THEN FALSE
    ELSE Abs(gaze[1] - 50) * 90 <= tolerance * 100
         /\ Abs(gaze[2] - 50) * 90 <= tolerance * 100

(***************************************************************************)
(* PrivacyScreenApp                                                        *)
(***************************************************************************)
\* a presence test that looks at the faces only
is_authorized_any_face(faces, gaze) == faces # NoFaces

\* _is_authorized_user_present
is_authorized_user_present(faces, gaze) ==
    IF faces = NoFaces THEN FALSE
    ELSE IF DictGet(AppSection("face_detection"), "recognition_enabled", FALSE)
            /\ recognize_face(known_faces, faces[1]) = None
         THEN FALSE
    ELSE IF AppSection("gaze_detection")["enabled"] /\ gaze # NoGaze
            /\ ~is_gaze_valid(gaze,
                              AppSection("gaze_detection")["tolerance_degrees"])
         THEN FALSE
    ELSE TRUE

\* a decision that follows the level of user_present, not its change
decision_by_level(user_present, protected) ==
    IF user_present THEN "remove" ELSE "apply"

\* the decision of _update_protection_state: which Effect Applier call it
\* makes for a user_present value and the current flag
decision(user_present, protected) ==
    IF user_present /\ protected THEN "remove"
    ELSE IF ~user_present /\ ~protected THEN "apply"
    ELSE "none"

\* a flag that the decision never writes
flag_after_unwritten(d, protected) == protected

\* self.is_protected after the decision d: set after a call, else as it was
flag_after(d, protected) ==
    IF d = "remove" THEN FALSE ELSE IF d = "apply" THEN TRUE ELSE protected

\* the Effect Applier calls of successive ticks with the given user_present
\* values, from the given flag
RECURSIVE run_ticks(_, _)
run_ticks(presence, protected) ==
    IF presence = <<>> THEN <<>>
    ELSE LET d == decision(Head(presence), protected)
         IN <<d>> \o run_ticks(Tail(presence), flag_after(d, protected))

\* _control_frame_rate: 1.0 / target_fps raises for fps 0
control_frame_rate_raises == AppSection("camera")["fps"] = 0

\* get_status: the snapshot, or the KeyError of self.config[...][...]
get_status ==
    IF "sensitivity" \notin DOMAIN AppSection("protection")
    THEN [raised |-> TRUE]
    ELSE [raised |-> FALSE,
          is_running |-> is_running,
          is_protected |-> is_protected,
          protection_mode |-> current_mode,
          sensitivity |-> AppSection("protection")["sensitivity"],
          camera_status |-> [is_running |-> cam_is_running,
                             is_opened |-> camera = "opened"]]

\* a range check that accepts every value
sensitivity_unchecked(s) == TRUE

\* set_sensitivity's range check
sensitivity_in_range(s) == 0 <= s /\ s <= 100

\* FaceDetector.set_sensitivity: the new confidence_threshold
fd_set_sensitivity(s, threshold) ==
    IF 0 <= s /\ s <= 100 THEN 100 - s ELSE threshold

\* a public operation has returned ret
Returned(op, ret) == [pc |-> "idle", op |-> op, ret |-> ret]

(***************************************************************************)
(* The public operations, called one at a time by the application's owner. *)
(***************************************************************************)
ModeArgs == valid_modes
SensitivityArgs == {-10, 0, 100, 110}

\* PrivacyScreenApp.set_protection_mode: the applier's result is not looked
\* at, the configuration is updated, True is returned
SetProtectionMode(mode) ==
    /\ call.pc = "idle"
    /\ LET r == sp_set_protection_mode(mode, current_mode, sp_is_protected)
           u == update_config(heap, cm_config, default_config, app_config,
                              "protection", [mode |-> mode])
       IN /\ current_mode' = r.current_mode
          /\ sp_is_protected' = r.is_protected
          /\ heap' = u.heap
          /\ cm_config' = u.cm_config
    /\ call' = Returned("set_protection_mode", TRUE)
    /\ UNCHANGED compVars
    /\ UNCHANGED <<default_config, app_config, detectorVars, appVars,
                   cameraVars, starts, histVars>>

\* PrivacyScreenApp.set_sensitivity
SetSensitivity(s) ==
    /\ call.pc = "idle"
    /\ IF sensitivity_in_range(s)
       THEN LET u == update_config(heap, cm_config, default_config, app_config,
                                   "protection", [sensitivity |-> s])
            IN /\ heap' = u.heap
               /\ cm_config' = u.cm_config
               /\ confidence_threshold' = fd_set_sensitivity(s, confidence_threshold)
               /\ accepted_sensitivity' = s
               /\ call' = Returned("set_sensitivity", TRUE)
       ELSE /\ call' = Returned("set_sensitivity", FALSE)
            /\ UNCHANGED <<heap, cm_config, confidence_threshold,
                           accepted_sensitivity>>
    /\ UNCHANGED compVars
    /\ UNCHANGED <<default_config, app_config, applierVars, known_faces,
                   gt_enabled, fps, appVars, cameraVars, starts, tick,
                   stores, got>>

\* CameraManager.start: True when _initialize_camera opened the device and
\* read its test frame
camera_start(opened, tested) == opened /\ tested

\* a start_protection that does not look at what the camera returned
start_protection_regardless(camera_started) == TRUE

\* if not self.camera_manager.start(): return False
start_protection_goes_on(camera_started) == camera_started

\* PrivacyScreenApp.start_protection with CameraManager.start inside it.
\* opened: the device could be opened; tested: the test frame was read.
StartProtection(opened, tested) ==
    /\ call.pc = "idle"
    /\ starts < MaxStarts
    /\ starts' = starts + 1
    /\ camera' = IF opened THEN "opened" ELSE "closed"
    /\ IF camera_start(opened, tested)
       THEN /\ cam_is_running' = TRUE
            /\ capture_thread' = starts + 1
            /\ capt' = [capt EXCEPT ![starts + 1] = [NewCapt EXCEPT !.pc = "check"]]
       ELSE UNCHANGED <<cam_is_running, capture_thread, capt>>
    /\ IF start_protection_goes_on(camera_start(opened, tested))
       THEN /\ is_running' = TRUE
            /\ protection_thread' = starts + 1
            /\ loop' = [loop EXCEPT ![starts + 1] = [NewLoop EXCEPT !.pc = "check"]]
            /\ call' = Returned("start_protection", TRUE)
       ELSE /\ call' = Returned("start_protection", FALSE)
            /\ UNCHANGED <<is_running, protection_thread, loop>>
    /\ UNCHANGED compVars
    /\ UNCHANGED <<configVars, applierVars, detectorVars, is_protected,
                   current_frame, device, histVars>>

LoopAlive(t) == t # 0 /\ loop[t].pc \notin {"none", "done"}
CaptAlive(c) == c # 0 /\ capt[c].pc \notin {"none", "done"}

\* stop_protection, first part: clear the flag, then join the loop thread
StopProtection ==
    /\ call.pc = "idle"
    /\ is_running' = FALSE
    /\ call' = [pc |-> "join_loop", op |-> "stop_protection", ret |-> FALSE]
    /\ UNCHANGED compVars
    /\ UNCHANGED <<configVars, applierVars, detectorVars, is_protected,
                   protection_thread, loop, cameraVars, starts, histVars>>

\* join(timeout=2.0) on the loop thread returns when the thread has ended or
\* when the two seconds are over; then CameraManager.stop clears its flag
JoinLoop(timeout) ==
    /\ call.pc = "join_loop"
    /\ timeout = LoopAlive(protection_thread)
    /\ cam_is_running' = FALSE
    /\ capt' = [c \in ThreadIds |-> [capt[c] EXCEPT !.stored = 0]]
    /\ call' = [call EXCEPT !.pc = "join_capture"]
    /\ UNCHANGED compVars
    /\ UNCHANGED <<configVars, applierVars, detectorVars, appVars, camera,
                   capture_thread, current_frame, device, starts, histVars>>

\* a stop_protection that leaves the flag set when it found it clear
flag_after_stop_set(protected) == IF protected THEN FALSE ELSE TRUE

\* if self.is_protected: ...; self.is_protected = False
flag_after_stop(protected) == IF protected THEN FALSE ELSE protected

\* CameraManager.stop after its join: release the device; then stop_protection
\* removes the protection if the flag is set, and returns True
JoinCapture(timeout) ==
    /\ call.pc = "join_capture"
    /\ timeout = CaptAlive(capture_thread)
    /\ camera' = IF camera # None THEN None ELSE camera
    /\ IF is_protected
       THEN /\ sp_is_protected' =
                   remove_protection(current_mode, sp_is_protected).is_protected
            /\ tick' = NoTick
       ELSE /\ UNCHANGED <<sp_is_protected, tick>>
    /\ is_protected' = flag_after_stop(is_protected)
    /\ call' = [call EXCEPT !.pc = "idle", !.ret = TRUE]
    /\ UNCHANGED compVars
    /\ UNCHANGED <<configVars, current_mode, detectorVars, is_running,
                   protection_thread, loop, cam_is_running, capture_thread, current_frame,
                   capt, device, starts, accepted_sensitivity, stores, got>>

(***************************************************************************)
(* _protection_loop: one thread t.                                         *)
(***************************************************************************)
\* while self.is_running: where the loop goes from its test
loop_while(running) == IF running THEN "get_frame" ELSE "done"

\* the while test starts the next iteration or ends the thread
LoopCheck(t) ==
    /\ loop[t].pc = "check"
    /\ loop' = [loop EXCEPT ![t] = [NewLoop EXCEPT !.pc = loop_while(is_running)]]
    /\ UNCHANGED compVars
    /\ UNCHANGED <<configVars, applierVars, detectorVars, is_running,
                   is_protected, protection_thread, cameraVars, call, starts,
                   histVars>>

\* a get_frame that finds nothing
get_frame_nothing(frame) == NoFrame

\* get_frame, inside the lock: the value it returns
get_frame_result(frame) == IF frame # NoFrame THEN frame ELSE NoFrame

\* a loop that goes on to the detectors whatever get_frame returned
after_get_frame_on(frame) == "tick"

\* if frame is None: time.sleep(0.01); continue
after_get_frame(frame) == IF frame = NoFrame THEN "check" ELSE "tick"

\* get_frame: under frame_lock, which makes it one step against the store of
\* the capture loop, return current_frame.copy() or None; the loop sleeps
\* and continues when it got None
GetFrame(t) ==
    /\ loop[t].pc = "get_frame"
    /\ LET frame == get_frame_result(current_frame)
       IN /\ loop' = [loop EXCEPT ![t].pc = after_get_frame(frame)]
          /\ got' = frame
    /\ UNCHANGED compVars
    /\ UNCHANGED <<configVars, applierVars, detectorVars, is_running,
                   is_protected, protection_thread, cameraVars, call, starts, tick,
                   accepted_sensitivity, stores>>

\* track_gaze for the decision loop: nothing when disabled, otherwise nothing
\* (no landmarks, eyes closed, an error) or an estimate
track_gaze_results == IF gt_enabled THEN GazeSamples \cup {NoGaze} ELSE {NoGaze}

\* what detect_faces, then track_gaze on faces[0] if there is a face, may
\* hand to the decision step: the pairs [faces, gaze]
detections ==
    UNION { LET faces == detect_faces(primary, fallback, confidence_threshold,
                            DictGet(AppSection("face_detection"), "max_faces", 5),
                            DictGet(AppSection("face_detection"),
                                    "tracking_enabled", TRUE),
                            EmptyDict).faces
            IN {[faces |-> faces, gaze |-> g] :
                   g \in (IF faces # NoFaces THEN track_gaze_results
                          ELSE {NoGaze})} :
            primary \in PrimaryOutputs, fallback \in FallbackOutputs }

\* the end of an iteration of _protection_loop: back to the while test, from
\* the last statement or from the except clause
loop_iteration_done == [NewLoop EXCEPT !.pc = "check"]

\* an exception that ends the thread
loop_torn_down == [NewLoop EXCEPT !.pc = "done", !.raised = TRUE]

loop_iteration_failed == [NewLoop EXCEPT !.pc = "check", !.raised = TRUE]

\* the rest of an iteration that got a frame: detect_faces, track_gaze,
\* _update_protection_state, then _update_performance_metrics and
\* _control_frame_rate; an exception ends the tick in the loop's handler
Tick(t, faces, gaze) ==
    /\ loop[t].pc = "tick"
    /\ LET present == is_authorized_user_present(faces, gaze)
           d == decision(present, is_protected)
       IN /\ is_protected' = flag_after(d, is_protected)
          /\ sp_is_protected' =
                 IF d = "remove"
                 THEN remove_protection(current_mode, sp_is_protected).is_protected
                 ELSE IF d = "apply"
                 THEN apply_protection(current_mode, sp_is_protected).is_protected
                 ELSE sp_is_protected
          /\ tick' = [effect |-> d,
                      last |-> IF present THEN "present" ELSE "absent"]
    /\ loop' = [loop EXCEPT ![t] = IF control_frame_rate_raises
                                   THEN loop_iteration_failed
                                   ELSE loop_iteration_done]
    /\ UNCHANGED compVars
    /\ UNCHANGED <<configVars, current_mode, detectorVars, is_running,
                   protection_thread, cameraVars, call, starts,
                   accepted_sensitivity, stores, got>>

(***************************************************************************)
(* _capture_loop: one thread c.                                            *)
(***************************************************************************)
\* time.sleep(1.0 / self.fps) raises for fps 0
capture_sleep_raises == fps = 0

\* the end of an iteration of _capture_loop: back to the while test, from the
\* sleep or from the except clause
capture_iteration_done(c) == [capt[c] EXCEPT !.pc = "check", !.frame = NoFrame,
                                             !.raised = FALSE]

capture_iteration_failed(c) == [capt[c] EXCEPT !.pc = "check", !.frame = NoFrame,
                                               !.raised = TRUE]

capture_iteration_end(c) ==
    IF capture_sleep_raises THEN capture_iteration_failed(c)
    ELSE capture_iteration_done(c)

\* a while test that does not look at the flag
capture_while_true(running) == "test"

\* while self.is_running: where the loop goes from its test
capture_while(running) == IF running THEN "test" ELSE "done"

\* the while test starts the next iteration or ends the thread
CaptCheck(c) ==
    /\ capt[c].pc = "check"
    /\ capt' = [capt EXCEPT ![c].pc = capture_while(cam_is_running),
                            ![c].raised = FALSE]
    /\ UNCHANGED compVars
    /\ UNCHANGED <<configVars, applierVars, detectorVars, appVars,
                   cam_is_running, camera, capture_thread, current_frame,
                   device, call, starts, histVars>>

\* if self.camera is None: sleep and continue
CaptTest(c) ==
    /\ capt[c].pc = "test"
    /\ capt' = [capt EXCEPT ![c].pc = IF camera = None THEN "check" ELSE "read"]
    /\ UNCHANGED compVars
    /\ UNCHANGED <<configVars, applierVars, detectorVars, appVars,
                   cam_is_running, camera, capture_thread, current_frame,
                   device, call, starts, histVars>>

\* ret, frame = self.camera.read(): an AttributeError when stop() has set the
\* camera to None since the test; a failed read is logged, and the iteration
\* ends in the sleep, which raises for fps 0
CaptRead(c, ok) ==
    /\ capt[c].pc = "read"
    /\ IF camera = None
       THEN /\ capt' = [capt EXCEPT ![c] = capture_iteration_failed(c)]
            /\ UNCHANGED device
       ELSE IF ok /\ camera = "opened" /\ device < MaxFrames
       THEN /\ device' = device + 1
            /\ capt' = [capt EXCEPT ![c].pc = "store", ![c].frame = device + 1]
       ELSE /\ capt' = [capt EXCEPT ![c] = capture_iteration_end(c)]
            /\ UNCHANGED device
    /\ UNCHANGED compVars
    /\ UNCHANGED <<configVars, applierVars, detectorVars, appVars,
                   cam_is_running, camera, capture_thread, current_frame,
                   call, starts, histVars>>

\* with self.frame_lock: self.current_frame = processed_frame; then the
\* metrics and the sleep.  stored counts the stores this thread has made
\* with the running flag cleared since stop() last cleared it.
CaptStore(c) ==
    /\ capt[c].pc = "store"
    /\ current_frame' = capt[c].frame
    /\ stores' = Append(stores, capt[c].frame)
    /\ capt' = [capt EXCEPT ![c] =
                   [capture_iteration_end(c) EXCEPT
                       !.stored = IF cam_is_running THEN capt[c].stored
                                  ELSE capt[c].stored + 1]]
    /\ UNCHANGED compVars
    /\ UNCHANGED <<configVars, applierVars, detectorVars, appVars,
                   cam_is_running, camera, capture_thread, device, call,
                   starts, tick, accepted_sensitivity, got>>

(***************************************************************************)
(* The specification.                                                      *)
(***************************************************************************)
Next ==
    \/ \E mode \in ModeArgs : SetProtectionMode(mode)
    \/ \E s \in SensitivityArgs : SetSensitivity(s)
    \/ \E opened, tested \in BOOLEAN : StartProtection(opened, tested)
    \/ StopProtection
    \/ \E timeout \in BOOLEAN : JoinLoop(timeout)
    \/ \E timeout \in BOOLEAN : JoinCapture(timeout)
    \/ \E t \in ThreadIds :
          LoopCheck(t) \/ GetFrame(t)
              \/ \E d \in detections : Tick(t, d.faces, d.gaze)
    \/ \E c \in ThreadIds :
          CaptCheck(c) \/ CaptTest(c) \/ CaptStore(c)
              \/ \E ok \in BOOLEAN : CaptRead(c, ok)

Spec == Init /\ [][Next]_vars

(***************************************************************************)
(* The state the component specifications leave alone.                     *)
(***************************************************************************)
\* the controller, the camera and the histories of Spec, not constructed
AppAtRest ==
    /\ is_running = FALSE
    /\ is_protected = FALSE
    /\ protection_thread = 0
    /\ loop = [t \in ThreadIds |-> NewLoop]
    /\ cam_is_running = FALSE
    /\ camera = None
    /\ capture_thread = 0
    /\ current_frame = NoFrame
    /\ capt = [t \in ThreadIds |-> NewCapt]
    /\ device = 0
    /\ call = NoCall
    /\ starts = 0
    /\ tick = NoTick
    /\ accepted_sensitivity = DefaultSection("protection")["sensitivity"]
    /\ stores = <<>>
    /\ got = NoFrame
    /\ frame_lock = Unfollowed

\* the bot, not started
BotAtRest ==
    /\ conv_state = Unfollowed
    /\ user_data = Unfollowed
    /\ sheet = Unfollowed

appRestVars == <<appVars, cameraVars, call, starts, histVars, botVars,
                 frame_lock>>

\* a ConfigManager that is not constructed
ConfigAtRest ==
    /\ heap = EmptyDict
    /\ cm_config = EmptyDict
    /\ default_config = EmptyDict
    /\ app_config = EmptyDict
    /\ saved = Unfollowed

cmVars == <<configVars, saved>>

\* a ScreenProtector built from the default section
ApplierAtRest ==
    /\ current_mode = DefaultSection("protection")["mode"]
    /\ sp_is_protected = FALSE

\* a FaceDetector and a GazeTracker built from the default sections
DetectorAtRest ==
    /\ confidence_threshold = DefaultSection("face_detection")["confidence_threshold"]
    /\ known_faces = FALSE
    /\ gt_enabled = DefaultSection("gaze_detection")["enabled"]
    /\ fps = DefaultSection("camera")["fps"]

(***************************************************************************)
(* ConfigManager on its own: its public operations, called one at a time.  *)
(***************************************************************************)
\* config_path: whether the file exists, and the document it holds (the
\* empty document for an empty file)
File(doc) == [exists |-> TRUE, doc |-> doc]
Absent == [exists |-> FALSE, doc |-> EmptyDict]

\* the configuration a top-level dict stands for, as a value
Deep(h, cm) == [s \in DOMAIN cm |-> h[cm[s]]]

\* the table _get_default_config returns, as a value
BuiltIn == [s \in Sections |-> DefaultSection(s)]

\* the objects after the garbage collector has taken those no top-level
\* dict refers to
Collect(h, cm, dflt) == [r \in Live(cm, dflt, EmptyDict) |-> h[r]]

\* save_config: the document at config_path after the write; an I/O error
\* (ok false) is caught and leaves the file as it was.  In the results of the
\* operations below io says that the save was tried and failed.
save_config(h, cm, file, ok) == IF ok THEN File(Deep(h, cm)) ELSE file

\* load_config: [ret, heap, cm_config, saved].  A file with content is merged
\* into default_config.copy(); an empty file gives the copy; a missing file
\* gives the copy and saves it.
load_config(h, dflt, file, ok) ==
    IF file.exists /\ DOMAIN file.doc # {}
    THEN [ret |-> TRUE, io |-> FALSE, heap |-> merge_heap(h, dflt, file.doc),
          cm_config |-> dflt, saved |-> file]
    ELSE IF file.exists
    THEN [ret |-> TRUE, io |-> FALSE, heap |-> h, cm_config |-> dflt,
          saved |-> file]
    ELSE [ret |-> ok, io |-> ~ok, heap |-> h, cm_config |-> dflt,
          saved |-> save_config(h, dflt, file, ok)]

\* set_value(key_path, value), key_path split at the dots: [ret, heap,
\* cm_config].  One key binds it at the top level; two keys write the leaf
\* into the section's dict, creating the section when it is missing; with
\* three keys the middle one is a leaf of the section, every leaf is a number,
\* a string or a boolean, and the item assignment on it raises TypeError,
\* which set_value catches; a missing middle key gets a new dict.
set_value(h, cm, dflt, path, value) ==
    IF Len(path) = 1
    THEN LET u == update_config(h, cm, dflt, EmptyDict, path[1], value)
         IN [ret |-> TRUE, heap |-> u.heap, cm_config |-> u.cm_config]
    ELSE LET u == IF path[1] \in DOMAIN cm
                  THEN [heap |-> h, cm_config |-> cm]
                  ELSE update_config(h, cm, dflt, EmptyDict, path[1], EmptyDict)
             r == u.cm_config[path[1]]
         IN IF Len(path) = 2
            THEN [ret |-> TRUE,
                  heap |-> [u.heap EXCEPT ![r] = DictSet(@, path[2], value)],
                  cm_config |-> u.cm_config]
            ELSE IF path[2] \in DOMAIN u.heap[r]
            THEN [ret |-> FALSE, heap |-> u.heap, cm_config |-> u.cm_config]
            ELSE [ret |-> TRUE,
                  heap |-> [u.heap EXCEPT ![r] =
                               DictSet(@, path[2],
                                       DictSet(EmptyDict, path[3], value))],
                  cm_config |-> u.cm_config]

\* the loop of update_config over updates.items(): [success, heap, cm_config]
RECURSIVE set_values(_, _, _, _)
set_values(h, cm, dflt, updates) ==
    IF updates = <<>> THEN [success |-> TRUE, heap |-> h, cm_config |-> cm]
    ELSE LET one == set_value(h, cm, dflt, Head(updates)[1], Head(updates)[2])
             rest == set_values(one.heap, one.cm_config, dflt, Tail(updates))
         IN [rest EXCEPT !.success = one.ret /\ rest.success]

\* update_config(updates): saves when every key was set, and returns False
\* without saving otherwise: [ret, heap, cm_config, saved]
cm_update_config(h, cm, dflt, file, updates, ok) ==
    LET u == set_values(h, cm, dflt, updates)
    IN [ret |-> u.success /\ ok, io |-> u.success /\ ~ok,
        heap |-> u.heap, cm_config |-> u.cm_config,
        saved |-> IF u.success THEN save_config(u.heap, u.cm_config, file, ok)
                  ELSE file]

\* reset_to_defaults: self.config = self.default_config.copy(), then the save
reset_to_defaults(h, cm, dflt, file, ok) ==
    [ret |-> ok, io |-> ~ok, heap |-> Collect(h, dflt, dflt),
     cm_config |-> dflt, saved |-> save_config(h, dflt, file, ok)]

\* _validate_imported_config: the three required sections; the sensitivity of
\* the documents is a number
required_sections == {"protection", "camera", "face_detection"}

validate_imported_config(doc) == required_sections \subseteq DOMAIN doc

\* import_config(file_path): a missing file, an empty document and a failed
\* validation return False; otherwise the document is merged into
\* self.config.copy() and the result is saved
import_config(h, cm, file, imported, ok) ==
    IF ~imported.exists \/ DOMAIN imported.doc = {}
       \/ ~validate_imported_config(imported.doc)
    THEN [ret |-> FALSE, io |-> FALSE, heap |-> h, cm_config |-> cm,
          saved |-> file]
    ELSE LET h2 == merge_heap(h, cm, imported.doc)
         IN [ret |-> ok, io |-> ~ok, heap |-> h2, cm_config |-> cm,
             saved |-> save_config(h2, cm, file, ok)]

\* the files an installation may have at config_path when the ConfigManager
\* is constructed
ConfigFiles ==
    {Absent, File(EmptyDict), File([protection |-> [mode |-> "pixelate"]]),
     File([protection |-> [sensitivity |-> 50], camera |-> [fps |-> 15]])}

\* the arguments of the calls
SetValueArgs ==
    { <<<<"protection", "mode">>, "overlay">>,
      <<<<"protection">>, [mode |-> "stealth"]>>,
      <<<<"camera", "fps", "x">>, 1>> }

UpdateArgs ==
    { << <<<<"protection">>, [sensitivity |-> 100]>> >>,
      << <<<<"camera", "fps">>, 60>>, <<<<"camera", "fps", "x">>, 1>> >> }

ImportFiles ==
    { Absent, File([protection |-> [mode |-> "brightness"]]),
      File([protection |-> [sensitivity |-> 30], camera |-> [fps |-> 60],
            face_detection |-> [max_faces |-> 1]]) }

\* the last call on the ConfigManager, what it returned and whether its save
\* failed: "new" while __init__ has built the default table and not yet
\* loaded
CmCall(op, ret, io) == [op |-> op, ret |-> ret, io |-> io]

InitConfig ==
    /\ default_config = [s \in Sections |-> DefaultRef(s)]
    /\ heap = [r \in {DefaultRef(s) : s \in Sections} |->
                  DefaultSection(CHOOSE s \in Sections : DefaultRef(s) = r)]
    /\ cm_config = EmptyDict
    /\ app_config = EmptyDict
    /\ saved \in ConfigFiles
    /\ obs = CmCall("new", TRUE, FALSE)
    /\ AppAtRest /\ BotAtRest /\ ApplierAtRest /\ DetectorAtRest
    /\ tracked_faces = Unfollowed
    /\ gaze_history = Unfollowed

cmRestVars == <<app_config, appRestVars, applierVars, detectorVars,
                tracked_faces, gaze_history>>

\* load_config, by __init__ and by the owner later
LoadConfig(ok) ==
    /\ LET r == load_config(heap, default_config, saved, ok)
       IN /\ heap' = Collect(r.heap, r.cm_config, default_config)
          /\ cm_config' = r.cm_config
          /\ saved' = r.saved
          /\ obs' = CmCall("load_config", r.ret, r.io)
    /\ UNCHANGED <<default_config, cmRestVars>>

SetValue(path, value) ==
    /\ obs.op # "new"
    /\ LET r == set_value(heap, cm_config, default_config, path, value)
       IN /\ heap' = r.heap
          /\ cm_config' = r.cm_config
          /\ obs' = CmCall("set_value", r.ret, FALSE)
    /\ UNCHANGED <<default_config, saved, cmRestVars>>

UpdateConfig(updates, ok) ==
    /\ obs.op # "new"
    /\ LET r == cm_update_config(heap, cm_config, default_config, saved,
                                 updates, ok)
       IN /\ heap' = r.heap
          /\ cm_config' = r.cm_config
          /\ saved' = r.saved
          /\ obs' = CmCall("update_config", r.ret, r.io)
    /\ UNCHANGED <<default_config, cmRestVars>>

ResetToDefaults(ok) ==
    /\ obs.op # "new"
    /\ LET r == reset_to_defaults(heap, cm_config, default_config, saved, ok)
       IN /\ heap' = r.heap
          /\ cm_config' = r.cm_config
          /\ saved' = r.saved
          /\ obs' = CmCall("reset_to_defaults", r.ret, r.io)
    /\ UNCHANGED <<default_config, cmRestVars>>

ImportConfig(imported, ok) ==
    /\ obs.op # "new"
    /\ LET r == import_config(heap, cm_config, saved, imported, ok)
       IN /\ heap' = r.heap
          /\ cm_config' = r.cm_config
          /\ saved' = r.saved
          /\ obs' = CmCall("import_config", r.ret, r.io)
    /\ UNCHANGED <<default_config, cmRestVars>>

NextConfig ==
    \/ \E ok \in BOOLEAN : LoadConfig(ok)
    \/ \E a \in SetValueArgs : SetValue(a[1], a[2])
    \/ \E u \in UpdateArgs : \E ok \in BOOLEAN : UpdateConfig(u, ok)
    \/ \E ok \in BOOLEAN : ResetToDefaults(ok)
    \/ \E f \in ImportFiles : \E ok \in BOOLEAN : ImportConfig(f, ok)

SpecConfig == InitConfig /\ [][NextConfig]_vars

(***************************************************************************)
(* Properties.                                                             *)
(***************************************************************************)
\* the most recently stored frame, or no frame
Latest(s) == IF s = <<>> THEN NoFrame ELSE s[Len(s)]

\* the place of a frame in the order of the stores, counted from the first
StorePosition(frame) ==
    IF frame = NoFrame THEN 0
    ELSE CHOOSE i \in 1..Len(stores) :
             stores[i] = frame /\ \A j \in (i + 1)..Len(stores) : stores[j] # frame

\* the detections a step of thread t can be a tick for: none unless the
\* step takes t from its decision step back to the while test
TickInputs(t) ==
    IF loop[t].pc = "tick" /\ loop'[t].pc = "check" THEN detections ELSE {}

\* the presence rule as the specification words it
PresenceRule(faces, gaze) ==
    /\ faces # NoFaces
    /\ \/ ~DictGet(AppSection("face_detection"), "recognition_enabled", FALSE)
       \/ recognize_face(known_faces, faces[1]) # None
    /\ \/ ~AppSection("gaze_detection")["enabled"]
       \/ gaze = NoGaze
       \/ is_gaze_valid(gaze, AppSection("gaze_detection")["tolerance_degrees"])

\* C1: a tick applies the protection exactly when its user_present is false
\* and the tick before it (if any since the protection was last off) had it
\* true, and removes it exactly when its user_present is true and the tick
\* before had it false; for the presence sequence F, F, T, T, F from the
\* unprotected state the calls are apply, none, remove, none, apply.
C1_ToggleOncePerCrossing ==
    [][ /\ \A t \in ThreadIds : \A d \in TickInputs(t) :
              Tick(t, d.faces, d.gaze) =>
                  /\ tick'.effect = "apply" <=>
                         (tick'.last = "absent" /\ tick.last # "absent")
                  /\ tick'.effect = "remove" <=>
                         (tick'.last = "present" /\ tick.last = "absent")
        /\ run_ticks(<<FALSE, FALSE, TRUE, TRUE, FALSE>>, FALSE)
               = <<"apply", "none", "remove", "none", "apply">> ]_vars

\* a tick has removed the protection on the user's return
C1_Witness == tick.effect = "remove" /\ tick.last = "present" /\ ~is_protected

\* C2: the user_present value a tick computes is true exactly when there is a
\* face, recognition is disabled or the first face is recognized, and gaze
\* checking is disabled or there is no gaze sample or the sample is valid.
C2_PresenceRule ==
    [][ \A t \in ThreadIds : \A d \in TickInputs(t) :
            Tick(t, d.faces, d.gaze) =>
                ((tick'.last = "present") <=> PresenceRule(d.faces, d.gaze)) ]_vars

\* a tick has found the user present with gaze checking enabled
C2_Witness ==
    /\ tick.last = "present"
    /\ AppSection("gaze_detection")["enabled"]
    /\ \E d \in detections : d.gaze # NoGaze /\ PresenceRule(d.faces, d.gaze)

\* C3: after every tick that reaches the decision step, is_protected is the
\* negation of the user_present value the tick computed.
C3_FlagIsNotPresent ==
    [][ \A t \in ThreadIds : \A d \in TickInputs(t) :
            Tick(t, d.faces, d.gaze) =>
                (is_protected' <=> tick'.last = "absent") ]_vars

\* a tick has left the protection on for an absent user
C3_Witness ==
    is_protected /\ sp_is_protected /\ tick.last = "absent" /\ tick.effect = "none"

C5_LoopsSurviveFailures ==
    [][ /\ \A t \in ThreadIds :
              /\ (loop[t].pc # "done" /\ loop'[t].pc = "done") =>
                     (loop[t].pc = "check" /\ ~is_running)
              /\ loop'[t].raised => loop'[t].pc = "check"
        /\ \A c \in ThreadIds :
              /\ (capt[c].pc # "done" /\ capt'[c].pc = "done") =>
                     (capt[c].pc = "check" /\ ~cam_is_running)
              /\ capt'[c].raised => capt'[c].pc = "check" ]_vars

\* both loops are running after an iteration of each raised
C5_Witness ==
    /\ is_running /\ cam_is_running
    /\ \E t \in ThreadIds : loop[t].raised /\ loop[t].pc = "check"
    /\ \E c \in ThreadIds : capt[c].raised /\ capt[c].pc = "check"

\* C6: once stop_protection has returned True the controller is idle:
\* is_running and is_protected are false, and stay so until the next call.
C6_IdleAfterStop ==
    (call.op = "stop_protection" /\ call.pc = "idle" /\ call.ret) =>
        (~is_running /\ ~is_protected)

\* C7: after stop() has cleared the running flag a capture thread stores at
\* most one more frame and ends at its next while test; when stop() has
\* returned, the flag is false and the camera is None; an iteration that
\* finds the camera gone raises into the loop's handler, not out of the loop.
C7_CaptureStops ==
    [][ /\ \A c \in ThreadIds :
              /\ capt'[c].stored <= 1
              /\ (capt[c].pc = "check" /\ capt'[c].pc # "check"
                      /\ ~cam_is_running) => capt'[c].pc = "done"
              /\ capt'[c].raised => capt'[c].pc = "check"
        /\ (call'.pc = "idle" /\ call'.op = "stop_protection") =>
               (~cam_is_running' /\ camera' = None) ]_vars

\* a capture thread has stored one more frame after the stop and has ended
C7_Witness ==
    /\ call.pc = "idle" /\ call.op = "stop_protection"
    /\ \E c \in ThreadIds : capt[c].stored > 0 /\ capt[c].pc = "done"

\* C8: set_protection_mode with one of the five modes returns True, and
\* afterwards the applier's current_mode and the Settings Store's
\* protection.mode are that mode.
C8_SetModeStored ==
    [][ \A m \in (IF call'.op = "set_protection_mode" /\ loop' = loop
                       /\ capt' = capt
                    THEN valid_modes ELSE {}) :
            SetProtectionMode(m) =>
                /\ call'.op = "set_protection_mode" /\ call'.ret
                /\ current_mode' = m
                /\ has_value(heap', cm_config', "protection", "mode")
                /\ get_value(heap', cm_config', "protection", "mode") = m ]_vars

\* the mode was set to stealth while the controller was protecting
C8_Witness ==
    /\ call.op = "set_protection_mode" /\ call.ret
    /\ current_mode = "stealth"
    /\ has_value(heap, cm_config, "protection", "mode")
    /\ get_value(heap, cm_config, "protection", "mode") = "stealth"
    /\ is_protected

\* C9: set_sensitivity(s) returns True exactly when 0 <= s <= 1; a rejected
\* call leaves the configuration and the threshold unchanged, an accepted
\* call sets the threshold to 1 - s.
C9_SetSensitivityRange ==
    [][ \A s \in (IF call'.op = "set_sensitivity" /\ loop' = loop
                       /\ capt' = capt
                    THEN SensitivityArgs ELSE {}) :
            SetSensitivity(s) =>
                /\ call'.op = "set_sensitivity"
                /\ call'.ret <=> (0 <= s /\ s <= 100)
                /\ ~call'.ret => UNCHANGED <<configVars, confidence_threshold>>
                /\ call'.ret =>
                       /\ confidence_threshold' = 100 - s
                       /\ get_value(heap', cm_config', "protection",
                                    "sensitivity") = s ]_vars

\* a call was rejected after another had changed the threshold
C9_Witness ==
    /\ call.op = "set_sensitivity" /\ ~call.ret
    /\ confidence_threshold = 100 - accepted_sensitivity
    /\ accepted_sensitivity # AppSection("protection")["sensitivity"]

\* C10: get_status never fails for a missing key, and its is_running,
\* is_protected, protection_mode and sensitivity are the two flags, the
\* applier's mode and the sensitivity most recently accepted by
\* set_sensitivity (the loaded value if none was).
C10_StatusSnapshot ==
    /\ ~get_status.raised
    /\ get_status.is_running = is_running
    /\ get_status.is_protected = is_protected
    /\ get_status.protection_mode = current_mode
    /\ get_status.sensitivity = accepted_sensitivity

(***************************************************************************)
(* ScreenProtector on its own: apply_protection, remove_protection and     *)
(* set_protection_mode, called one at a time.                              *)
(***************************************************************************)
\* the mode names a call or a configuration file may give
ModeNames == valid_modes \cup {"invalid"}

\* the last call on the ScreenProtector: its argument, what it returned, and
\* current_mode and is_protected as the call found them
SpCall(op, arg, ret) ==
    [op |-> op, arg |-> arg, ret |-> ret,
     before |-> [current_mode |-> current_mode, is_protected |-> sp_is_protected]]

\* __init__: current_mode is the configured mode, whatever its name
InitApplier ==
    /\ current_mode \in ModeNames
    /\ sp_is_protected = FALSE
    /\ obs = [op |-> "new", arg |-> None, ret |-> TRUE,
              before |-> [current_mode |-> current_mode, is_protected |-> FALSE]]
    /\ ConfigAtRest /\ DetectorAtRest /\ AppAtRest /\ BotAtRest
    /\ tracked_faces = Unfollowed
    /\ gaze_history = Unfollowed

spRestVars == <<cmVars, detectorVars, appRestVars, tracked_faces, gaze_history>>

ApplyProtection ==
    /\ LET r == apply_protection(current_mode, sp_is_protected)
       IN /\ sp_is_protected' = r.is_protected
          /\ obs' = SpCall("apply_protection", None, r.success)
    /\ UNCHANGED <<current_mode, spRestVars>>

RemoveProtection ==
    /\ LET r == remove_protection(current_mode, sp_is_protected)
       IN /\ sp_is_protected' = r.is_protected
          /\ obs' = SpCall("remove_protection", None, r.success)
    /\ UNCHANGED <<current_mode, spRestVars>>

ApplierSetProtectionMode(mode) ==
    /\ LET r == sp_set_protection_mode(mode, current_mode, sp_is_protected)
       IN /\ current_mode' = r.current_mode
          /\ sp_is_protected' = r.is_protected
          /\ obs' = SpCall("set_protection_mode", mode, r.ret)
    /\ UNCHANGED spRestVars

NextApplier ==
    \/ ApplyProtection
    \/ RemoveProtection
    \/ \E mode \in ModeNames : ApplierSetProtectionMode(mode)

SpecApplier == InitApplier /\ [][NextApplier]_vars

(***************************************************************************)
(* FaceDetector on its own: set_sensitivity and detect_faces, called one   *)
(* at a time.                                                              *)
(***************************************************************************)
\* what the face_detection section of the configuration file may set
DetectorConfigs == {EmptyDict, [max_faces |-> 1], [tracking_enabled |-> FALSE]}

\* what the two detectors may report for a frame
PrimaryFrames ==
    { <<>>, <<Detection(90, Box1)>>, <<Detection(60, Box2)>>,
      <<Detection(90, Box1), Detection(60, Box3)>>,
      <<Detection(80, Box3), Detection(90, Box1)>> }
FallbackFrames == {<<>>, <<Box2>>, <<Box1, Box3>>}

\* the attributes __init__ reads from the section
fd_max_faces == DictGet(AppSection("face_detection"), "max_faces", 5)
fd_tracking_enabled == DictGet(AppSection("face_detection"), "tracking_enabled", TRUE)

\* a count that stops at one above the lost-frames limit
CountTo(n) == IF n > LostLimit THEN n ELSE n + 1

\* __init__: the threshold of the section, and no tracker records.  obs is
\* the last call: the detectors' outputs it was given, whether the fallback
\* ran, the faces returned, the faces the detect_faces call before it
\* returned, whether a call has returned a face and how many calls in a row
\* have returned none since, and the sensitivity last accepted (<<>>: none)
InitDetector ==
    /\ \E c \in DetectorConfigs :
          /\ app_config = [s \in {"face_detection"} |-> DefaultRef(s)]
          /\ heap = [r \in {DefaultRef("face_detection")} |->
                        DictUpdate(DefaultSection("face_detection"), c)]
    /\ cm_config = EmptyDict
    /\ default_config = EmptyDict
    /\ saved = Unfollowed
    /\ DetectorAtRest
    /\ tracked_faces = EmptyDict
    /\ obs = [op |-> "new", primary |-> <<>>, fallback |-> <<>>,
              fallback_ran |-> FALSE, faces |-> <<>>, prev |-> <<>>,
              seen |-> FALSE, misses |-> 0, sensitivity |-> <<>>]
    /\ ApplierAtRest /\ AppAtRest /\ BotAtRest
    /\ gaze_history = Unfollowed

fdRestVars == <<cmVars, applierVars, known_faces, gt_enabled, fps,
                appRestVars, gaze_history>>

\* FaceDetector.set_sensitivity
FdSetSensitivity(s) ==
    /\ confidence_threshold' = fd_set_sensitivity(s, confidence_threshold)
    /\ obs' = [obs EXCEPT !.op = "set_sensitivity",
                          !.sensitivity = IF 0 <= s /\ s <= 100 THEN <<s>>
                                          ELSE @]
    /\ UNCHANGED <<tracked_faces, fdRestVars>>

\* FaceDetector.detect_faces on a frame for which the detectors report
\* primary and fallback
DetectFaces(primary, fallback) ==
    /\ LET r == detect_faces(primary, fallback, confidence_threshold,
                             fd_max_faces, fd_tracking_enabled, tracked_faces)
       IN /\ tracked_faces' = r.tracked
          /\ obs' = [obs EXCEPT !.op = "detect_faces",
                                !.primary = primary,
                                !.fallback = fallback,
                                !.fallback_ran = r.fallback_ran,
                                !.faces = r.faces,
                                !.prev = obs.faces,
                                !.seen = obs.seen \/ r.faces # <<>>,
                                !.misses = IF r.faces # <<>> THEN 0
                                           ELSE IF obs.seen THEN CountTo(@)
                                           ELSE @]
    /\ UNCHANGED <<confidence_threshold, fdRestVars>>

NextDetector ==
    \/ \E s \in SensitivityArgs : FdSetSensitivity(s)
    \/ \E primary \in PrimaryFrames : \E fallback \in FallbackFrames :
          DetectFaces(primary, fallback)

SpecDetector == InitDetector /\ [][NextDetector]_vars

(***************************************************************************)
(* GazeTracker on its own: track_gaze, called once per frame.              *)
(* Landmark coordinates are in hundredths of the frame; a gaze coordinate  *)
(* is in GazeUnit-ths of a hundredth, so that the weighted averages of     *)
(* the smoothing are whole numbers: 0.5 is 50 * GazeUnit.                  *)
(***************************************************************************)
\* the least common multiple of the weight sums of 2..5 history entries
GazeUnit == 180

\* self.EAR_THRESHOLD = 0.2, in thousandths
EAR_THRESHOLD == 200

\* self.history_size
history_size == 5

\* math.sqrt of a whole number that is a square
Sqrt(n) == CHOOSE r \in 0..n : r * r = n

\* _euclidean_distance
euclidean_distance(p, q) == Sqrt(Distance2(p, q))

\* the six landmarks of an eye of width c whose two vertical openings are a
\* and b, in the order of LEFT_EYE and RIGHT_EYE: corner, two upper points,
\* corner, two lower points
Eye(a, b, c) ==
    << <<0, 0>>, <<3, a>>, <<6, b>>, <<c, 0>>, <<6, 0>>, <<3, 0>> >>

\* the landmark lists _extract_eye_landmarks may return: an open eye
\* (ratio 0.6), a closed one (0.1), one at the threshold (0.2), one whose
\* corners coincide, and a list cut short by an index error
OpenEye == Eye(6, 6, 10)
ClosedEye == Eye(1, 1, 10)
ThresholdEye == Eye(2, 2, 10)
FlatEye == Eye(6, 6, 0)
ShortEye == SubSeq(OpenEye, 1, 3)
Eyes == {OpenEye, ClosedEye, ThresholdEye, FlatEye, ShortEye}

\* _calculate_eye_aspect_ratio, in thousandths: 0.0 for fewer than six
\* landmarks and for the ZeroDivisionError of 2.0 * C = 0
calculate_eye_aspect_ratio(eye) ==
    IF Len(eye) < 6 THEN 0
    ELSE LET A == euclidean_distance(eye[2], eye[6])
             B == euclidean_distance(eye[3], eye[5])
             C == euclidean_distance(eye[1], eye[4])
         IN IF C = 0 THEN 0 ELSE ((A + B) * 1000) \div (2 * C)

\* an eye test that wants both eyes closed
eyes_closed_both(left_ear, right_ear) ==
    left_ear < EAR_THRESHOLD /\ right_ear < EAR_THRESHOLD

\* if left_ear < self.EAR_THRESHOLD or right_ear < self.EAR_THRESHOLD
eyes_closed(left_ear, right_ear) ==
    left_ear < EAR_THRESHOLD \/ right_ear < EAR_THRESHOLD

\* max(0.0, min(1.0, g))
Clamp(g) == IF g < 0 THEN 0 ELSE IF g > 100 THEN 100 ELSE g

\* _calculate_eye_gaze: 0.5 + offset * 2.0, clamped, for the offset of the
\* iris center from the eye center
calculate_eye_gaze(offset) ==
    <<Clamp(50 + offset[1] * 2), Clamp(50 + offset[2] * 2)>>

\* _calculate_gaze_direction: the average of the two eyes; the offsets of
\* the frames are even, so the halves are whole
calculate_gaze_direction(left_offset, right_offset) ==
    LET l == calculate_eye_gaze(left_offset)
        r == calculate_eye_gaze(right_offset)
    IN <<((l[1] + r[1]) * GazeUnit) \div 2, ((l[2] + r[2]) * GazeUnit) \div 2>>

\* the iris offsets of the frames, the same for both eyes: far up and left
\* (clamped to 0), slightly right
IrisOffsets == {<<-30, -30>>, <<10, 0>>}

\* a history that drops the newest entry when it is full
push_history_newest_out(history, gaze) ==
    LET h == Append(history, gaze)
    IN IF Len(h) > history_size THEN SubSeq(h, 1, history_size) ELSE h

\* the history after append and pop(0)
push_history(history, gaze) ==
    LET h == Append(history, gaze)
    IN IF Len(h) > history_size THEN Tail(h) ELSE h

\* weights that are all the same, with the same sum
Weight_flat(i, k) == 3 * (k - 1)

\* np.linspace(0.5, 1.0, k) / sum, times 3 * k * (k - 1): the weight of
\* entry i of k is 2 * (k - 1) + 2 * (i - 1)
Weight(i, k) == 2 * (k - 1) + 2 * (i - 1)

RECURSIVE weighted_sum(_, _, _, _)
weighted_sum(history, axis, i, k) ==
    IF i > k THEN 0
    ELSE history[i][axis] * Weight(i, k) + weighted_sum(history, axis, i + 1, k)

\* _smooth_gaze_direction: [gaze, gaze_history]
smooth_gaze_direction(history, gaze) ==
    LET h == push_history(history, gaze)
        k == Len(h)
    IN [gaze_history |-> h,
        gaze |-> IF k < 2 THEN gaze
                 ELSE <<weighted_sum(h, 1, 1, k) \div (3 * k * (k - 1)),
                        weighted_sum(h, 2, 1, k) \div (3 * k * (k - 1))>>]

\* a track_gaze that enters the estimate into the history before it looks
\* at the eyes
track_gaze_early(enabled, mesh, left, right, offset, history) ==
    IF ~enabled \/ ~mesh
    THEN [gaze |-> NoGaze, gaze_history |-> history]
    ELSE LET r == smooth_gaze_direction(history,
                                        calculate_gaze_direction(offset, offset))
         IN IF eyes_closed(calculate_eye_aspect_ratio(left),
                           calculate_eye_aspect_ratio(right))
            THEN [gaze |-> NoGaze, gaze_history |-> r.gaze_history]
            ELSE r

\* track_gaze: [gaze, gaze_history].  mesh: the face mesh found landmarks.
\* _gaze_to_screen_coordinates and _apply_calibration return their input.
track_gaze(enabled, mesh, left, right, offset, history) ==
    IF ~enabled \/ ~mesh
    THEN [gaze |-> NoGaze, gaze_history |-> history]
    ELSE IF eyes_closed(calculate_eye_aspect_ratio(left),
                        calculate_eye_aspect_ratio(right))
    THEN [gaze |-> NoGaze, gaze_history |-> history]
    ELSE smooth_gaze_direction(history,
                               calculate_gaze_direction(offset, offset))

\* __init__: enabled from the section, an empty history.  obs is the last
\* call: the eye landmarks it extracted, the iris offset, what it returned
\* and the history it found
InitGaze ==
    /\ gt_enabled \in BOOLEAN
    /\ gaze_history = <<>>
    /\ obs = [op |-> "new", mesh |-> FALSE, left |-> <<>>, right |-> <<>>,
              offset |-> <<0, 0>>, gaze |-> NoGaze, before |-> <<>>]
    /\ confidence_threshold = DefaultSection("face_detection")["confidence_threshold"]
    /\ known_faces = FALSE
    /\ fps = DefaultSection("camera")["fps"]
    /\ ConfigAtRest /\ ApplierAtRest /\ AppAtRest /\ BotAtRest
    /\ tracked_faces = Unfollowed

gtRestVars == <<cmVars, applierVars, detectorVars, appRestVars, tracked_faces>>

TrackGaze(mesh, left, right, offset) ==
    /\ LET r == track_gaze(gt_enabled, mesh, left, right, offset, gaze_history)
       IN /\ gaze_history' = r.gaze_history
          /\ obs' = [op |-> "track_gaze", mesh |-> mesh, left |-> left,
                     right |-> right, offset |-> offset, gaze |-> r.gaze,
                     before |-> gaze_history]
    /\ UNCHANGED gtRestVars

\* _protection_loop: gaze_direction = None, and track_gaze(frame, faces[0])
\* only `if faces`: [called, gaze, gaze_history]
loop_track_gaze(faces, enabled, mesh, left, right, offset, history) ==
    IF faces # NoFaces
    THEN [called |-> TRUE,
          r |-> track_gaze(enabled, mesh, left, right, offset, history)]
    ELSE [called |-> FALSE, r |-> [gaze |-> NoGaze, gaze_history |-> history]]

\* a tick of the decision loop in which detect_faces returned no face
TickWithoutFace ==
    /\ LET t == loop_track_gaze(NoFaces, gt_enabled, TRUE, OpenEye, OpenEye,
                                <<0, 0>>, gaze_history)
       IN /\ gaze_history' = t.r.gaze_history
          /\ obs' = [op |-> IF t.called THEN "track_gaze" ELSE "no_face",
                     mesh |-> FALSE, left |-> <<>>, right |-> <<>>,
                     offset |-> <<0, 0>>, gaze |-> t.r.gaze,
                     before |-> gaze_history]
    /\ UNCHANGED gtRestVars

NextGaze ==
    \/ \E mesh \in BOOLEAN : \E left, right \in Eyes : \E offset \in IrisOffsets :
           TrackGaze(mesh, left, right, offset)
    \/ TickWithoutFace

SpecGaze == InitGaze /\ [][NextGaze]_vars

(***************************************************************************)
(* GazeTracker.is_gaze_valid on its own, for directions in hundredths and  *)
(* tolerances in degrees.                                                  *)
(***************************************************************************)
\* the coordinates of the directions tried: the edges, the center, and two
\* points 0.15 away from the center
GazeCoordinates == {0, 35, 50, 65, 100}

GazeDirections ==
    {NoGaze} \cup {<<x, y>> : x \in GazeCoordinates, y \in GazeCoordinates}

\* the tolerances tried, the built-in 15 among them
Tolerances == {0, 15, 30, 44, 45, 90}

InitValid ==
    /\ obs = [op |-> "new", gaze |-> NoGaze, tolerance |-> 0, ret |-> FALSE]
    /\ gaze_history = <<>>
    /\ tracked_faces = Unfollowed
    /\ ConfigAtRest /\ ApplierAtRest /\ DetectorAtRest /\ AppAtRest /\ BotAtRest
IsGazeValid(gaze, tolerance) ==
    /\ obs' = [op |-> "is_gaze_valid", gaze |-> gaze, tolerance |-> tolerance,
               ret |-> is_gaze_valid(gaze, tolerance)]
    /\ UNCHANGED <<gtRestVars, gaze_history>>

NextValid ==
    \E gaze \in GazeDirections : \E tolerance \in Tolerances :
        IsGazeValid(gaze, tolerance)

SpecValid == InitValid /\ [][NextValid]_vars

(***************************************************************************)
(* The contact-form bot (bot.py).  The Application handles one update at   *)
(* a time; a handler runs to its end before the next update is taken.      *)
(* The replies sent to the user reach them; only sheet.append_row may      *)
(* fail.                                                                   *)
(***************************************************************************)
\* worksheet rows one run appends
MaxRows == 2

\* DENUMIRE, TELEFON, EMAIL, DESCRIERE = range(4)
DENUMIRE == 0
TELEFON == 1
EMAIL == 2
DESCRIERE == 3

\* ConversationHandler.END; also stands for the conversation the handler
\* holds no state for
END == -1

\* a handler that returns None leaves the state of the conversation alone
KeepState == -2

\* EMOJIS['skip'], and the label of the reply keyboard's button
SkipEmoji == "[skip]"
SkipButton == "[skip] Sari peste"
SkipSentinel == "[skip] sari peste"

\* the texts users send
Texts == {"Acme Inc", SkipButton}

\* str.lower on the texts
lower(text) ==
    CASE text = "Acme Inc" -> "acme inc"
      [] text = "Widgets" -> "widgets"
      [] text = SkipButton -> SkipSentinel
      [] OTHER -> text

\* the accounts updates come from: with and without a username
Users == { [username |-> "acme_ana", first_name |-> "Ana"],
           [username |-> None, first_name |-> "Ana"] }

\* the account of an update whose handler does not look at it
NoUser == [username |-> None, first_name |-> ""]

\* datetime.datetime.now().strftime("%d.%m.%Y %H:%M")
Timestamp == "04.11.2025 10:00"

\* the updates: the press of the add_company button, the commands /start,
\* /cancel and another one, a text message, and a message without text
UpdateKinds == {"add_company", "/start", "/cancel", "/help", "text", "photo"}

\* what a handler leaves behind: the state it returns, user_data, the
\* worksheet and the message it sends
Handled(state, ud, sh, reply) ==
    [state |-> state, user_data |-> ud, sheet |-> sh, reply |-> reply]

\* start: the welcome message with the button; returns None
start(ud, sh) == Handled(KeepState, ud, sh, "Bun venit")

start_conversation(ud, sh) ==
    Handled(DENUMIRE, EmptyDict, sh, "Introdu denumirea companiei")

denumire(ud, sh, text) ==
    Handled(TELEFON, DictSet(ud, "denumire", text), sh,
            "Introdu numarul de telefon")

\* an answer taken as it was typed
answer_exact(text) ==
    IF text # SkipSentinel THEN text ELSE "Nespecificat"

\* the value telefon, email and descriere store for an answer
answer(text) ==
    IF lower(text) # SkipSentinel THEN text ELSE "Nespecificat"

\* a telefon that goes on to the description
telefon_to_descriere(ud, sh, text) ==
    Handled(DESCRIERE, DictSet(ud, "telefon", answer(text)), sh,
            "Introdu descrierea companiei")

telefon(ud, sh, text) ==
    Handled(EMAIL, DictSet(ud, "telefon", answer(text)), sh,
            "Introdu adresa de email")

email(ud, sh, text) ==
    Handled(DESCRIERE, DictSet(ud, "email", answer(text)), sh,
            "Introdu descrierea companiei")

\* f"@{update.effective_user.username or update.effective_user.first_name}"
autor(user) ==
    <<"@", IF user.username # None THEN user.username ELSE user.first_name>>

\* the user_data descriere has written before it appends
descriere_data(ud, text, user) ==
    DictSet(DictSet(DictSet(ud, "descriere", answer(text)),
                    "autor", autor(user)), "data", Timestamp)

\* the keys descriere reads to build the row
RowKeys == {"denumire", "telefon", "email", "descriere", "autor", "data"}

\* the row descriere appends.  A key that is not in user_data raises
\* KeyError inside the try block
Row(ud) ==
    <<ud["denumire"], ud["telefon"], ud["email"], ud["descriere"],
      ud["autor"], ud["data"]>>

\* a descriere that reports success whether or not the row was appended
descriere_always_done(ud, sh, text, user, append_ok) ==
    LET ud2 == descriere_data(ud, text, user)
    IN Handled(END, ud2,
               IF RowKeys \subseteq DOMAIN ud2 /\ append_ok
               THEN Append(sh, Row(ud2)) ELSE sh,
               "Inregistrare completa")

\* descriere: the except clause takes a KeyError of the row as it takes a
\* failure of append_row
descriere(ud, sh, text, user, append_ok) ==
    LET ud2 == descriere_data(ud, text, user)
    IN IF RowKeys \subseteq DOMAIN ud2 /\ append_ok
       THEN Handled(END, ud2, Append(sh, Row(ud2)), "Inregistrare completa")
       ELSE Handled(END, ud2, sh, "Eroare la salvarea datelor")

\* a cancel that keeps the fields
cancel_keeping(ud, sh) == Handled(END, ud, sh, "Operatie anulata")

cancel(ud, sh) == Handled(END, EmptyDict, sh, "Operatie anulata")

\* no handler of the ConversationHandler takes the update
NotHandled(ud, sh) == Handled(KeepState, ud, sh, "")

\* filters.TEXT & ~filters.COMMAND
IsText(kind) == kind = "text"

\* ConversationHandler with allow_reentry: an entry point that matches is
\* taken in every state; otherwise, inside a conversation, the handler of
\* the state and then the fallbacks
handle_update(state, ud, sh, kind, text, user, append_ok) ==
    IF kind = "add_company" THEN start_conversation(ud, sh)
    ELSE IF kind = "/start" THEN start(ud, sh)
    ELSE IF state = END THEN NotHandled(ud, sh)
    ELSE IF IsText(kind)
    THEN CASE state = DENUMIRE -> denumire(ud, sh, text)
           [] state = TELEFON -> telefon(ud, sh, text)
           [] state = EMAIL -> email(ud, sh, text)
           [] state = DESCRIERE -> descriere(ud, sh, text, user, append_ok)
    ELSE IF kind = "/cancel" THEN cancel(ud, sh)
    ELSE NotHandled(ud, sh)

\* main: the worksheet is open, no conversation, no user_data.  obs is the
\* last update with the state it met and the reply it got
InitBot ==
    /\ conv_state = END
    /\ user_data = EmptyDict
    /\ sheet = <<>>
    /\ obs = [kind |-> "none", text |-> "", user |-> NoUser,
              append_ok |-> TRUE, state |-> END, reply |-> ""]
    /\ saved = Unfollowed
    /\ tracked_faces = Unfollowed
    /\ gaze_history = Unfollowed
    /\ heap = EmptyDict /\ cm_config = EmptyDict
    /\ default_config = EmptyDict /\ app_config = EmptyDict
    /\ ApplierAtRest /\ DetectorAtRest /\ AppAtRest

botRestVars == <<configVars, applierVars, detectorVars, appVars, cameraVars,
                 call, starts, histVars, saved, tracked_faces, gaze_history,
                 frame_lock>>

\* the updates that are not text messages
OtherKinds == UpdateKinds \ {"text"}

\* the record of an update
Seen(kind, text, user, append_ok, reply) ==
    [kind |-> kind, text |-> text, user |-> user, append_ok |-> append_ok,
     state |-> conv_state, reply |-> reply]

\* a message with a text.  The outcome of append_row counts in DESCRIERE
\* only
TextMessage(text, user, append_ok) ==
    /\ (conv_state # DESCRIERE) => append_ok
    /\ (conv_state = DESCRIERE /\ append_ok) => Len(sheet) < MaxRows
    /\ LET r == handle_update(conv_state, user_data, sheet, "text", text,
                              user, append_ok)
       IN /\ conv_state' = IF r.state = KeepState THEN conv_state ELSE r.state
          /\ user_data' = r.user_data
          /\ sheet' = r.sheet
          /\ obs' = Seen("text", text, user, append_ok, r.reply)
    /\ UNCHANGED botRestVars

\* the button, a command, or a message without text
OtherUpdate(kind) ==
    /\ LET r == handle_update(conv_state, user_data, sheet, kind, "", NoUser,
                              TRUE)
       IN /\ conv_state' = IF r.state = KeepState THEN conv_state ELSE r.state
          /\ user_data' = r.user_data
          /\ sheet' = r.sheet
          /\ obs' = Seen(kind, "", NoUser, TRUE, r.reply)
    /\ UNCHANGED botRestVars

NextBot ==
    \/ \E text \in Texts : \E user \in Users : \E append_ok \in BOOLEAN :
           TextMessage(text, user, append_ok)
    \/ \E kind \in OtherKinds : OtherUpdate(kind)

SpecBot == InitBot /\ [][NextBot]_vars

(***************************************************************************)
(* The threads of the controller and of the camera over several starts:    *)
(* start_protection, stop_protection and CameraManager.set_resolution,     *)
(* with each loop reduced to its while test.                               *)
(* The protection flags, the frames and the configuration are not          *)
(* followed.                                                               *)
(***************************************************************************)
\* threads of each kind created in one run
MaxThreads == 2

Threads == 1..MaxThreads

\* the threads of a kind that were started
Started(threads) == {t \in Threads : threads[t].pc # "none"}

\* the threads of a kind that were started and have not ended
Alive(threads) == {t \in Threads : threads[t].pc \notin {"none", "done"}}

\* CameraManager.resolution_map has the resolution
ResolutionArgs == {"1080p", "4k"}
resolution_map == {"480p", "720p", "1080p"}

InitLoops ==
    /\ is_running = FALSE
    /\ is_protected = FALSE
    /\ protection_thread = 0
    /\ loop = [t \in Threads |-> NewLoop]
    /\ cam_is_running = FALSE
    /\ camera = None
    /\ capture_thread = 0
    /\ capt = [c \in Threads |-> NewCapt]
    /\ call = NoCall
    /\ current_frame = NoFrame
    /\ device = 0
    /\ starts = 0
    /\ tick = NoTick
    /\ accepted_sensitivity = DefaultSection("protection")["sensitivity"]
    /\ stores = <<>>
    /\ got = NoFrame
    /\ ConfigAtRest /\ ApplierAtRest /\ DetectorAtRest /\ BotAtRest
    /\ tracked_faces = Unfollowed
    /\ gaze_history = Unfollowed
    /\ obs = Unfollowed
    /\ frame_lock = Unfollowed

loopsRestVars == <<configVars, applierVars, detectorVars, is_protected,
                   current_frame, device, starts, histVars, compVars>>

\* CameraManager.start when the device opens: the flag is set and a new
\* capture thread is started, whatever the flag and the old thread are
camera_started(threads) ==
    [threads EXCEPT ![Cardinality(Started(threads)) + 1] =
        [NewCapt EXCEPT !.pc = "check"]]

\* start_protection: no test of is_running; CameraManager.start, and if it
\* succeeded the flag is set and a new loop thread is started
StartAgain(camera_ok) ==
    /\ call.pc = "idle"
    /\ Cardinality(Started(loop)) < MaxThreads
    /\ Cardinality(Started(capt)) < MaxThreads
    /\ camera' = IF camera_ok THEN "opened" ELSE "closed"
    /\ IF camera_start(camera_ok, camera_ok)
       THEN /\ cam_is_running' = TRUE
            /\ capt' = camera_started(capt)
            /\ capture_thread' = Cardinality(Started(capt)) + 1
       ELSE UNCHANGED <<cam_is_running, capt, capture_thread>>
    /\ IF start_protection_goes_on(camera_start(camera_ok, camera_ok))
       THEN /\ is_running' = TRUE
            /\ protection_thread' = Cardinality(Started(loop)) + 1
            /\ loop' = [loop EXCEPT ![Cardinality(Started(loop)) + 1] =
                           [NewLoop EXCEPT !.pc = "check"]]
            /\ call' = Returned("start_protection", TRUE)
       ELSE /\ call' = Returned("start_protection", FALSE)
            /\ UNCHANGED <<is_running, protection_thread, loop>>
    /\ UNCHANGED loopsRestVars

\* stop_protection: clear the flag, then join the loop thread
StopAgain ==
    /\ call.pc = "idle"
    /\ is_running' = FALSE
    /\ call' = [pc |-> "join_loop", op |-> "stop_protection", ret |-> FALSE]
    /\ UNCHANGED <<protection_thread, loop, cam_is_running, camera,
                   capture_thread, capt, loopsRestVars>>

\* join(timeout=2.0) on the loop thread is over: the thread has ended, or
\* (timeout) it is still alive; CameraManager.stop clears its flag
StopJoinLoop(timeout) ==
    /\ call.pc = "join_loop"
    /\ timeout = (protection_thread \in Alive(loop))
    /\ cam_is_running' = FALSE
    /\ call' = [call EXCEPT !.pc = "join_capture"]
    /\ UNCHANGED <<is_running, protection_thread, loop, camera,
                   capture_thread, capt, loopsRestVars>>

\* CameraManager.stop after its join: release the device and return
StopJoinCapture(timeout) ==
    /\ call.pc = "join_capture"
    /\ timeout = (capture_thread \in Alive(capt))
    /\ camera' = None
    /\ call' = Returned("stop_protection", TRUE)
    /\ UNCHANGED <<is_running, protection_thread, loop, cam_is_running,
                   capture_thread, capt, loopsRestVars>>

\* set_resolution: False for an unknown resolution; a camera that is not
\* running is left alone; a running one is stopped first
SetResolution(resolution) ==
    /\ call.pc = "idle"
    /\ IF resolution \notin resolution_map
       THEN /\ call' = Returned("set_resolution", FALSE)
            /\ UNCHANGED cam_is_running
       ELSE IF ~cam_is_running
       THEN /\ call' = Returned("set_resolution", TRUE)
            /\ UNCHANGED cam_is_running
       ELSE /\ cam_is_running' = FALSE
            /\ call' = [pc |-> "restart", op |-> "set_resolution",
                        ret |-> FALSE]
    /\ UNCHANGED <<is_running, protection_thread, loop, camera,
                   capture_thread, capt, loopsRestVars>>

\* set_resolution after the join of stop(): release the device, then
\* start() again
SetResolutionRestart(timeout, camera_ok) ==
    /\ call.pc = "restart"
    /\ timeout = (capture_thread \in Alive(capt))
    /\ Cardinality(Started(capt)) < MaxThreads
    /\ camera' = IF camera_ok THEN "opened" ELSE "closed"
    /\ IF camera_start(camera_ok, camera_ok)
       THEN /\ cam_is_running' = TRUE
            /\ capt' = camera_started(capt)
            /\ capture_thread' = Cardinality(Started(capt)) + 1
       ELSE UNCHANGED <<cam_is_running, capt, capture_thread>>
    /\ call' = Returned("set_resolution", camera_start(camera_ok, camera_ok))
    /\ UNCHANGED <<is_running, protection_thread, loop, loopsRestVars>>

\* while self.is_running of _protection_loop: the thread goes round again,
\* which changes nothing here, or ends
LoopTest(t) ==
    /\ loop[t].pc = "check"
    /\ loop' = [loop EXCEPT ![t].pc = IF is_running THEN "check" ELSE "done"]
    /\ UNCHANGED <<is_running, protection_thread, cam_is_running, camera,
                   capture_thread, capt, call, loopsRestVars>>

\* while self.is_running of _capture_loop
CaptureTest(c) ==
    /\ capt[c].pc = "check"
    /\ capt' = [capt EXCEPT ![c].pc = IF capture_while(cam_is_running) = "done"
                                     THEN "done" ELSE "check"]
    /\ UNCHANGED <<is_running, protection_thread, loop, cam_is_running,
                   camera, capture_thread, call, loopsRestVars>>

NextLoops ==
    \/ \E camera_ok \in BOOLEAN : StartAgain(camera_ok)
    \/ StopAgain
    \/ \E timeout \in BOOLEAN : StopJoinLoop(timeout)
    \/ \E timeout \in BOOLEAN : StopJoinCapture(timeout)
    \/ \E resolution \in ResolutionArgs : SetResolution(resolution)
    \/ \E timeout, camera_ok \in BOOLEAN :
           SetResolutionRestart(timeout, camera_ok)
    \/ \E t \in Threads : LoopTest(t)
    \/ \E c \in Threads : CaptureTest(c)

SpecLoops == InitLoops /\ [][NextLoops]_vars

(***************************************************************************)
(* Properties of the ConfigManager.                                        *)
(***************************************************************************)
\* the leaf a load over the built-in table has to give: the file's, or the
\* table's where the file does not name it
MergedLeaf(user, s, k) ==
    IF s \in DOMAIN user /\ k \in DOMAIN user[s] THEN user[s][k]
    ELSE DefaultSection(s)[k]

\* the keys a section has after the load
MergedKeys(user, s) ==
    (DOMAIN DefaultSection(s))
        \cup (IF s \in DOMAIN user THEN DOMAIN user[s] ELSE {})

C12_SavedAfterEachMutation ==
    ( /\ \/ obs.op \in {"update_config", "reset_to_defaults"}
         \/ obs.op \in {"set_value", "import_config"} /\ obs.ret
      /\ ~obs.io )
        => saved = File(Deep(heap, cm_config))

\* C13: after a successful reset_to_defaults every section and leaf has the
\* value of the built-in default table.
C13_ResetRestoresBuiltIn ==
    (obs.op = "reset_to_defaults" /\ obs.ret) =>
        Deep(heap, cm_config) = BuiltIn

(***************************************************************************)
(* Properties of the ScreenProtector.                                      *)
(***************************************************************************)
\* C14: set_protection_mode with one of the five modes returns True, makes it
\* the current mode and leaves the applier protected if it was protected and
\* unprotected if it was not; with any other name it returns False and
\* changes neither current_mode nor is_protected.
C14_ModeSwapKeepsProtection ==
    obs.op = "set_protection_mode" =>
        IF obs.arg \in valid_modes
        THEN /\ obs.ret
             /\ current_mode = obs.arg
             /\ sp_is_protected = obs.before.is_protected
        ELSE /\ ~obs.ret
             /\ current_mode = obs.before.current_mode
             /\ sp_is_protected = obs.before.is_protected

(***************************************************************************)
(* Properties of the FaceDetector.                                         *)
(***************************************************************************)
\* the methods of the faces in a list
Methods(faces) == {faces[i].detection_method : i \in 1..Len(faces)}

\* C15: detect_faces runs the fallback detector exactly when no detection of
\* the primary detector is at or above the threshold, and the faces it
\* returns are all tagged mediapipe or all tagged opencv.
C15_FallbackIffPrimaryEmpty ==
    obs.op = "detect_faces" =>
        /\ obs.fallback_ran <=>
               \A i \in 1..Len(obs.primary) :
                   obs.primary[i].score < confidence_threshold
        /\ Methods(obs.faces) \in {{}, {"mediapipe"}, {"opencv"}}
        /\ obs.faces # <<>> =>
               (obs.fallback_ran <=> Methods(obs.faces) = {"opencv"})

\* the primary detector's only detection was under the threshold and the
\* fallback's two rectangles were returned
C15_Witness ==
    /\ obs.op = "detect_faces"
    /\ Len(obs.primary) = 1 /\ obs.fallback_ran
    /\ Len(obs.faces) = 2 /\ Methods(obs.faces) = {"opencv"}

\* C16: every mediapipe face returned has a confidence at or above the
\* threshold, which is 1 - sensitivity once set_sensitivity has accepted
\* one; every opencv face has the confidence 0.8, whatever the threshold.
C16_ThresholdInPrimaryPathOnly ==
    /\ obs.sensitivity # <<>> => confidence_threshold = 100 - obs.sensitivity[1]
    /\ obs.op = "detect_faces" =>
          \A i \in 1..Len(obs.faces) :
              /\ obs.faces[i].detection_method = "mediapipe" =>
                     obs.faces[i].confidence >= confidence_threshold
              /\ obs.faces[i].detection_method = "opencv" =>
                     obs.faces[i].confidence = 80

\* with the threshold at 1.0 the primary detection was dropped and a
\* fallback face of confidence 0.8 was returned
C16_Witness ==
    /\ obs.op = "detect_faces"
    /\ obs.sensitivity = <<0>> /\ confidence_threshold = 100
    /\ obs.primary # <<>>
    /\ obs.faces # <<>> /\ obs.faces[1].confidence = 80

\* C17: with tracking enabled, when two consecutive detect_faces calls
\* return one face each and the center moved less than 100 px, the face
\* has the same non-null tracking id in both.
C17_StableTrackingId ==
    ( /\ obs.op = "detect_faces" /\ fd_tracking_enabled
      /\ Len(obs.prev) = 1 /\ Len(obs.faces) = 1
      /\ Distance2(Center(obs.prev[1].bbox), Center(obs.faces[1].bbox))
             < TrackRadius2 )
        => /\ obs.faces[1].tracking_id # NoId
           /\ obs.faces[1].tracking_id = obs.prev[1].tracking_id

\* C18: with tracking enabled every face detect_faces returns has a
\* non-null tracking id with a record of that id, and the faces of one
\* result have different ids.
C18_NewFacesGetIds ==
    (obs.op = "detect_faces" /\ fd_tracking_enabled) =>
        /\ \A i \in 1..Len(obs.faces) :
              /\ obs.faces[i].tracking_id # NoId
              /\ obs.faces[i].tracking_id \in DOMAIN tracked_faces
        /\ \A i, j \in 1..Len(obs.faces) :
              i # j => obs.faces[i].tracking_id # obs.faces[j].tracking_id

\* C19: with tracking enabled, once a face was returned there is a record
\* that stays active while fewer than 10 calls in a row have found no face
\* and is inactive from the 10th such call on.
C19_RetiredAfterTenMisses ==
    (obs.op = "detect_faces" /\ fd_tracking_enabled /\ obs.seen) =>
        IF obs.misses < LostLimit
        THEN \E id \in DOMAIN tracked_faces : tracked_faces[id].active
        ELSE \E id \in DOMAIN tracked_faces : ~tracked_faces[id].active

(***************************************************************************)
(* Properties of the GazeTracker.                                          *)
(***************************************************************************)
\* the ratio (A + B) / (2 C) of an eye with six landmarks and a width is
\* below 0.2: 5 (A + B) < 2 C, for the openings and the width of the eye
RatioBelowThreshold(eye) ==
    5 * ((eye[2][2] - eye[6][2]) + (eye[3][2] - eye[5][2]))
        < 2 * (eye[4][1] - eye[1][1])

\* the eye counts as closed: too few landmarks, or the ratio is below 0.2
CountsAsClosed(eye) ==
    Len(eye) < 6 \/ (eye[4][1] # eye[1][1] /\ RatioBelowThreshold(eye))

\* C20: when the aspect ratio of either eye is below 0.2, or fewer than six
\* landmarks were extracted for it, track_gaze returns nothing, whatever
\* the iris offsets and the history are.
C20_ClosedEyeGivesNothing ==
    ( /\ obs.op = "track_gaze"
      /\ CountsAsClosed(obs.left) \/ CountsAsClosed(obs.right) )
        => obs.gaze = NoGaze

\* with estimates in the history, a call with the left eye open and the right
\* eye closed returned nothing
C20_Witness ==
    /\ obs.op = "track_gaze" /\ gt_enabled /\ obs.mesh
    /\ obs.left = OpenEye /\ obs.right = ClosedEye
    /\ Len(gaze_history) >= 2
    /\ obs.gaze = NoGaze

\* the direction lies in the square of half-side tolerance/90 around the
\* center: on each axis it is no further than that to either side
InSquare(gaze, tolerance) ==
    \A axis \in 1..2 :
        /\ 90 * (gaze[axis] - 50) <= 100 * tolerance
        /\ 90 * (50 - gaze[axis]) <= 100 * tolerance

\* C21: is_gaze_valid is true iff a direction is given and it lies in the
\* square of half-side tolerance/90 around (0.5, 0.5); so the center is valid
\* for every tolerance >= 0, the corner (0, 0) is invalid for every tolerance
\* below 45, and an absent direction is invalid.
C21_GazeValidSquare ==
    obs.op = "is_gaze_valid" =>
        /\ obs.ret <=> (obs.gaze # NoGaze /\ InSquare(obs.gaze, obs.tolerance))
        /\ (obs.gaze = <<50, 50>> /\ obs.tolerance >= 0) => obs.ret
        /\ (obs.gaze = <<0, 0>> /\ obs.tolerance < 45) => ~obs.ret
        /\ obs.gaze = NoGaze => ~obs.ret

\* a direction in a corner of the square, outside the circle of the same
\* radius, was found valid at the built-in tolerance
C21_Witness ==
    /\ obs.op = "is_gaze_valid"
    /\ obs.gaze = <<35, 35>> /\ obs.tolerance = 15
    /\ obs.ret

(***************************************************************************)
(* Properties of the contact-form bot.                                     *)
(***************************************************************************)
\* the step is the handling of a text message
TextStep == obs'.kind = "text"

\* C22: the dialog is a strictly ordered four-step session: the button
\* enters it at the company name, each text message advances exactly one
\* step (name, phone, email, description, end), no other update advances it,
\* and a row is appended by the description step only, one row per
\* completed dialog, with the three earlier answers already given.
C22_FourStepsInOrder ==
    [][ /\ conv_state' # conv_state =>
               \/ obs'.kind = "add_company" /\ conv_state' = DENUMIRE
               \/ obs'.kind = "/cancel" /\ conv_state' = END
               \/ TextStep /\ conv_state # END /\ conv_state # DESCRIERE
                           /\ conv_state' = conv_state + 1
               \/ TextStep /\ conv_state = DESCRIERE /\ conv_state' = END
        /\ (TextStep /\ conv_state \in {DENUMIRE, TELEFON, EMAIL})
               => conv_state' = conv_state + 1 /\ sheet' = sheet
        /\ (TextStep /\ conv_state = DESCRIERE) => conv_state' = END
        /\ (TextStep /\ conv_state = DESCRIERE /\ obs'.append_ok)
               => Len(sheet') = Len(sheet) + 1
        /\ sheet' # sheet =>
               /\ TextStep /\ conv_state = DESCRIERE
               /\ Len(sheet') = Len(sheet) + 1
               /\ SubSeq(sheet', 1, Len(sheet)) = sheet
               /\ {"denumire", "telefon", "email"} \subseteq DOMAIN user_data
      ]_vars

\* two dialogs were completed and the worksheet holds two rows
C22_Witness ==
    /\ obs.kind = "text" /\ obs.state = DESCRIERE /\ conv_state = END
    /\ Len(sheet) = 2

\* the user sent the skip sentinel: the label of the button, in whatever case
SentSkip(text) == text \in {SkipButton, SkipSentinel}

\* what the form has to hold for an answer that may be skipped
Stored(text) == IF SentSkip(text) THEN "Nespecificat" ELSE text

\* the handle of the submitter
Handle(user) == IF user.username # None THEN user.username ELSE user.first_name

\* the field a step fills in
FieldOf(state) ==
    CASE state = DENUMIRE -> "denumire"
      [] state = TELEFON -> "telefon"
      [] state = EMAIL -> "email"
      [] state = DESCRIERE -> "descriere"

\* C23: the company-name step stores whatever text is sent; the phone, email
\* and description steps store the text sent, or Nespecificat iff it was the
\* skip sentinel in any case; and the row appended on completion is (name,
\* phone, email, description, '@' + submitter handle, timestamp) with the
\* answers given at the four steps.
C23_RowHoldsTheAnswers ==
    [][ (TextStep /\ conv_state # END) =>
            /\ user_data'[FieldOf(conv_state)] =
                   IF conv_state = DENUMIRE THEN obs'.text
                   ELSE Stored(obs'.text)
            /\ \A f \in DOMAIN user_data \ {FieldOf(conv_state), "autor", "data"} :
                   user_data'[f] = user_data[f]
            /\ (conv_state = DESCRIERE /\ obs'.append_ok) =>
                   sheet'[Len(sheet')] =
                       <<user_data["denumire"], user_data["telefon"],
                         user_data["email"], Stored(obs'.text),
                         <<"@", Handle(obs'.user)>>, Timestamp>>
      ]_vars

\* the row of a dialog answered with a name, skip, skip and a description by
\* an account without a username
C23_Witness ==
    /\ obs.kind = "text" /\ obs.state = DESCRIERE /\ conv_state = END
    /\ sheet # <<>>
    /\ sheet[Len(sheet)] = <<"Acme Inc", "Nespecificat", "Nespecificat",
                              "Acme Inc", <<"@", "Ana">>, Timestamp>>

\* C24: /cancel at any of the four steps ends the session and discards the
\* form: user_data is cleared and no row is appended; afterwards a text is
\* not taken as an answer, and only the entry button starts a session again.
C24_CancelDiscardsTheForm ==
    [][ /\ (obs'.kind = "/cancel" /\ conv_state # END) =>
               /\ conv_state' = END
               /\ user_data' = EmptyDict
               /\ sheet' = sheet
        /\ (TextStep /\ conv_state = END) =>
               /\ UNCHANGED <<conv_state, user_data, sheet>>
               /\ obs'.reply = ""
        /\ (conv_state = END /\ conv_state' # END) =>
               obs'.kind = "add_company" /\ conv_state' = DENUMIRE
      ]_vars

\* a form with three answers was cancelled at the description step
C24_Witness ==
    /\ obs.kind = "/cancel" /\ obs.state = DESCRIERE
    /\ conv_state = END /\ user_data = EmptyDict
    /\ obs.reply = "Operatie anulata"

\* the entry button starts a session in the state reached
CanStartAgain ==
    handle_update(conv_state', user_data', sheet', "add_company", "", NoUser,
                  TRUE).state = DENUMIRE

\* C25: when append_row fails at the description step the user gets the
\* failure message and not the success message, no row is added, the session
\* ends, and a new session can be started from the button.
C25_AppendFailureEndsSession ==
    [][ (TextStep /\ conv_state = DESCRIERE /\ ~obs'.append_ok) =>
            /\ obs'.reply = "Eroare la salvarea datelor"
            /\ obs'.reply # "Inregistrare completa"
            /\ sheet' = sheet
            /\ conv_state' = END
            /\ CanStartAgain
      ]_vars

\* the append of a dialog's row failed after an earlier dialog's row had
\* been appended: the user was told so and the session is over
C25_Witness ==
    /\ obs.kind = "text" /\ obs.state = DESCRIERE /\ ~obs.append_ok
    /\ obs.reply = "Eroare la salvarea datelor"
    /\ conv_state = END
    /\ Len(sheet) = 1

(***************************************************************************)
(* Further properties of the controller (Spec).                            *)
(***************************************************************************)
\* C26: when the Frame Source fails to start, start_protection returns False
\* and the controller stays idle: is_running remains false, no decision loop
\* thread is created and the protection flags are as they were.
C26_FailedStartStaysIdle ==
    [][ (starts' = starts + 1 /\ capture_thread' # starts' /\ ~is_running) =>
            /\ call' = Returned("start_protection", FALSE)
            /\ ~is_running'
            /\ UNCHANGED <<protection_thread, loop, is_protected,
                           sp_is_protected>>
      ]_vars

\* the device opened but its test frame could not be read; start_protection
\* returned False
C26_Witness ==
    /\ call = Returned("start_protection", FALSE)
    /\ starts = 1 /\ camera = "opened"
    /\ ~is_running /\ protection_thread = 0

\* the step is the decision tick of a loop thread
TickStep == \E t \in ThreadIds : loop[t].pc = "tick" /\ loop'[t].pc # "tick"

\* the step is the end of stop_protection
StopStep == call.pc = "join_capture" /\ call'.pc = "idle"

\* C27: the controller's is_protected flag is mutated only within the
\* decision tick: no other operation of the controller writes it.
C27_OnlyTickWritesFlag ==
    [][ is_protected' # is_protected => TickStep ]_vars

\* C27, amended: the flag is set only within the decision tick; it is cleared
\* within the tick or by stop_protection, which clears it after removing the
\* effect; start_protection, set_protection_mode and set_sensitivity do not
\* write it.
C27_TickSetsStopClears ==
    [][ /\ is_protected' # is_protected => (TickStep \/ StopStep)
        /\ (is_protected' /\ ~is_protected) => TickStep
        /\ call'.op \in {"start_protection", "set_protection_mode",
                         "set_sensitivity"} /\ call' # call /\ ~TickStep
               => is_protected' = is_protected
      ]_vars

\* the loop took a frame and ended, and stop_protection cleared the flag the
\* tick had set: the record of the tick is gone with it
C27_Witness ==
    /\ call = Returned("stop_protection", TRUE)
    /\ got # NoFrame /\ loop[1].pc = "done"
    /\ tick = NoTick
    /\ ~is_protected

\* C28: the controller's is_protected flag and the Effect Applier's own flag
\* agree whenever no tick and no mode change is in progress (each is one
\* step here), after any interleaving of ticks, set_protection_mode calls
\* and stop_protection, for any configured mode.
C28_FlagsAgree == is_protected = sp_is_protected

\* the leaf a setter of the controller names
LeafOf(op) == IF op = "set_protection_mode" THEN "mode" ELSE "sensitivity"

\* C29: set_protection_mode and set_sensitivity change only the leaf they
\* name in the stored configuration: every other key of the protection
\* section is still there with its value, and the other sections are as
\* they were.
C29_SettersChangeOneLeaf ==
    [][ (call'.op \in {"set_protection_mode", "set_sensitivity"} /\ call'.ret) =>
            /\ \A k \in DOMAIN heap[cm_config["protection"]] \ {LeafOf(call'.op)} :
                   /\ k \in DOMAIN heap'[cm_config'["protection"]]
                   /\ heap'[cm_config'["protection"]][k]
                          = heap[cm_config["protection"]][k]
            /\ \A sec \in DOMAIN cm_config \ {"protection"} :
                   /\ sec \in DOMAIN cm_config'
                   /\ heap'[cm_config'[sec]] = heap[cm_config[sec]]
      ]_vars

\* C30: at most one capture loop and at most one decision loop are live at
\* any time, also after a start while running and after a restart that
\* follows a stop whose join timed out.
C30_OneLoopOfEachKind ==
    /\ Cardinality(Alive(loop)) <= 1
    /\ Cardinality(Alive(capt)) <= 1

(***************************************************************************)
(* The controller's setters on their own: set_protection_mode and          *)
(* set_sensitivity called one at a time on a constructed application that  *)
(* was not started, with any mode name.                                    *)
(***************************************************************************)
NextSetters ==
    \/ \E mode \in ModeNames : SetProtectionMode(mode)
    \/ \E s \in SensitivityArgs : SetSensitivity(s)

SpecSetters == Init /\ [][NextSetters]_vars

\* protection.mode as the Settings Store holds it
StoredMode(h, cm) == DictGet(h[cm["protection"]], "mode", None)

\* C31: set_protection_mode with a name outside the five valid modes
\* returns False and changes nothing: the applier's current_mode and the
\* stored protection.mode keep their values.
C31_InvalidModeRejected ==
    [][ \A m \in (IF call'.op = "set_protection_mode"
                    THEN ModeNames \ valid_modes ELSE {}) :
            SetProtectionMode(m) =>
                /\ ~call'.ret
                /\ current_mode' = current_mode
                /\ StoredMode(heap', cm_config') = StoredMode(heap, cm_config)
      ]_vars

\* face recognition is enabled in the controller's configuration
RecognitionEnabled ==
    DictGet(AppSection("face_detection"), "recognition_enabled", FALSE)

\* C32: with face recognition enabled, recognize_face returns no identity
\* for any face, user_present is false on every tick, and a tick never
\* removes the protection: once applied it stays through every later tick,
\* whatever faces and gaze samples the tick gets.
C32_RecognitionNeverPresent ==
    [][ (TickStep /\ RecognitionEnabled) =>
            /\ \A d \in detections :
                   d.faces # NoFaces =>
                       recognize_face(known_faces, d.faces[1]) = None
            /\ tick'.last = "absent"
            /\ tick'.effect # "remove"
            /\ is_protected => is_protected'
      ]_vars

\* with recognition enabled and identities known, a tick found the
\* protection applied and left it on
C32_Witness ==
    /\ RecognitionEnabled /\ known_faces
    /\ tick = [effect |-> "none", last |-> "absent"]
    /\ is_protected /\ sp_is_protected

(***************************************************************************)
(* The bot with one account in two chats.  ConversationHandler is built    *)
(* with its defaults (per_chat, per_user): it keeps one state for each     *)
(* chat of an account, while context.user_data is the one dict of the      *)
(* account, whatever the chat.                                             *)
(***************************************************************************)
Chats == {"private", "group"}

\* worksheet rows one run of the two chats appends
MaxChatRows == 1

\* the texts the account sends in each chat
ChatTexts(chat) == IF chat = "private" THEN {"Acme Inc"} ELSE {"Widgets"}

\* the account, the same in both chats
Account == [username |-> "acme_ana", first_name |-> "Ana"]

\* the answers of the session of a chat: the fields entered since the
\* button last started it, as the handlers store them; none once it ended
SessionAfter(entered, state, kind, text, r) ==
    IF kind = "add_company" \/ r.state = END THEN EmptyDict
    ELSE IF IsText(kind) /\ state = DENUMIRE THEN DictSet(entered, "denumire", text)
    ELSE IF IsText(kind) /\ state \in {TELEFON, EMAIL, DESCRIERE}
    THEN DictSet(entered, FieldOf(state), answer(text))
    ELSE entered

\* obs is the last update with its chat, the state it met, the reply it
\* got, and the answers of each chat's session
InitChats ==
    /\ conv_state = [c \in Chats |-> END]
    /\ user_data = EmptyDict
    /\ sheet = <<>>
    /\ obs = [chat |-> "none", kind |-> "none", text |-> "", append_ok |-> TRUE,
              state |-> END, reply |-> "",
              entered |-> [c \in Chats |-> EmptyDict]]
    /\ saved = Unfollowed
    /\ tracked_faces = Unfollowed
    /\ gaze_history = Unfollowed
    /\ ConfigAtRest /\ ApplierAtRest /\ DetectorAtRest /\ AppAtRest

\* a message with a text in a chat
ChatText(chat, text, append_ok) ==
    /\ (conv_state[chat] # DESCRIERE) => append_ok
    /\ (conv_state[chat] = DESCRIERE /\ append_ok) => Len(sheet) < MaxChatRows
    /\ LET r == handle_update(conv_state[chat], user_data, sheet, "text", text,
                              Account, append_ok)
       IN /\ conv_state' = [conv_state EXCEPT ![chat] =
                               IF r.state = KeepState THEN @ ELSE r.state]
          /\ user_data' = r.user_data
          /\ sheet' = r.sheet
          /\ obs' = [chat |-> chat, kind |-> "text", text |-> text,
                     append_ok |-> append_ok, state |-> conv_state[chat],
                     reply |-> r.reply,
                     entered |-> [obs.entered EXCEPT ![chat] =
                         SessionAfter(@, conv_state[chat], "text", text, r)]]
    /\ UNCHANGED botRestVars

\* the button or a command in a chat
ChatUpdate(chat, kind) ==
    /\ LET r == handle_update(conv_state[chat], user_data, sheet, kind, "",
                              Account, TRUE)
       IN /\ conv_state' = [conv_state EXCEPT ![chat] =
                               IF r.state = KeepState THEN @ ELSE r.state]
          /\ user_data' = r.user_data
          /\ sheet' = r.sheet
          /\ obs' = [chat |-> chat, kind |-> kind, text |-> "",
                     append_ok |-> TRUE, state |-> conv_state[chat],
                     reply |-> r.reply,
                     entered |-> [obs.entered EXCEPT ![chat] =
                         SessionAfter(@, conv_state[chat], kind, "", r)]]
    /\ UNCHANGED botRestVars

NextChats ==
    \/ \E chat \in Chats : \E text \in ChatTexts(chat) : \E append_ok \in BOOLEAN :
           ChatText(chat, text, append_ok)
    \/ \E chat \in Chats : \E kind \in {"add_company", "/start", "/cancel"} :
           ChatUpdate(chat, kind)

SpecChats == InitChats /\ [][NextChats]_vars

\* the fields of the steps before a state
EarlierFields(state) ==
    {FieldOf(k) : k \in {j \in {DENUMIRE, TELEFON, EMAIL, DESCRIERE} : j < state}}

\* C33: a session at step k holds every field of the earlier steps, with
\* the value entered since the session's last start, so the description
\* step never finds a field missing; the appended row holds only values
\* entered since that start; and the entry button at any step clears all
\* fields and returns to the company-name step.
C33_SessionHoldsItsOwnFields ==
    [][ /\ \A c \in Chats : \A f \in EarlierFields(conv_state'[c]) :
               /\ f \in DOMAIN user_data'
               /\ user_data'[f] = obs'.entered[c][f]
        /\ (obs'.kind = "text" /\ obs'.state = DESCRIERE) =>
               obs'.reply = (IF obs'.append_ok THEN "Inregistrare completa"
                             ELSE "Eroare la salvarea datelor")
        /\ sheet' # sheet =>
               /\ \A i \in 1..3 :
                      sheet'[Len(sheet')][i] =
                          obs.entered[obs'.chat][FieldOf(i - 1)]
               /\ sheet'[Len(sheet')][4] = answer(obs'.text)
        /\ obs'.kind = "add_company" =>
               /\ user_data' = EmptyDict
               /\ conv_state'[obs'.chat] = DENUMIRE
      ]_vars

(***************************************************************************)
(* Properties of the gaze smoothing.                                       *)
(***************************************************************************)
\* the raw estimate of the last call: what _calculate_gaze_direction gave
\* the smoothing step
RawEstimate(o) == calculate_gaze_direction(o.offset, o.offset)

\* the call produced an estimate
Estimated(o) == o.op = "track_gaze" /\ o.gaze # NoGaze

\* the last n entries of a sequence
LastN(seq, n) ==
    IF Len(seq) <= n THEN seq ELSE SubSeq(seq, Len(seq) - n + 1, Len(seq))

\* C34: the history never exceeds 5 entries and is a FIFO of the raw
\* estimates that reached the smoothing step: each such estimate is added
\* at the end, in arrival order, and the oldest is evicted when a sixth
\* arrives, so the history is the last min(n, 5) of them.
C34_HistoryIsFifoOfFive ==
    [][ /\ Len(gaze_history') <= 5
        /\ Estimated(obs') =>
               gaze_history' = LastN(Append(gaze_history, RawEstimate(obs')), 5)
      ]_vars

\* a sixth estimate arrived and evicted the oldest, which differed from it
C34_Witness ==
    /\ Estimated(obs)
    /\ Len(obs.before) = 5 /\ Len(gaze_history) = 5
    /\ obs.before[1] # RawEstimate(obs)
    /\ gaze_history = Tail(obs.before) \o <<RawEstimate(obs)>>

\* the weight of entry i of k, rising linearly from 0.5 for the oldest to
\* 1.0 for the newest, in units of 1 / (2 * (k - 1))
LinearWeight(i, k) == (k - 1) + (i - 1)

\* the sum of term(i) for i in 1..n
RECURSIVE SumTo(_, _)
SumTo(term(_), n) == IF n = 0 THEN 0 ELSE term(n) + SumTo(term, n - 1)

\* coordinate a of the weighted average of history h is g: g times the sum
\* of the weights is the weighted sum
IsWeightedAverage(g, h, a) ==
    LET k == Len(h)
        w(i) == LinearWeight(i, k)
        wh(i) == LinearWeight(i, k) * h[i][a]
    IN g * SumTo(w, k) = SumTo(wh, k)

\* C35: the smoothing step returns the raw estimate unchanged when the
\* history, the new estimate included, has fewer than 2 entries; otherwise
\* it returns, per axis, the average of the k <= 5 entries with weights
\* rising linearly from 0.5 (oldest) to 1.0 (newest), normalised to sum
\* to 1, which lies between the least and the greatest entry on that axis
\* and within [0, 1].
C35_SmoothedIsWeightedAverage ==
    [][ Estimated(obs') =>
            LET h == gaze_history'
                k == Len(h)
            IN IF k < 2 THEN obs'.gaze = RawEstimate(obs')
               ELSE /\ k <= 5
                    /\ LinearWeight(k, k) = 2 * LinearWeight(1, k)
                    /\ \A a \in {1, 2} :
                          /\ IsWeightedAverage(obs'.gaze[a], h, a)
                          /\ \E i \in 1..k : h[i][a] <= obs'.gaze[a]
                          /\ \E i \in 1..k : obs'.gaze[a] <= h[i][a]
                          /\ 0 <= obs'.gaze[a]
                          /\ obs'.gaze[a] <= 100 * GazeUnit
      ]_vars

\* five estimates that are not all the same were averaged: the result is
\* none of them
C35_Witness ==
    /\ Estimated(obs)
    /\ Len(gaze_history) = 5
    /\ gaze_history[1] # gaze_history[5]
    /\ \A i \in 1..5 : obs.gaze # gaze_history[i]
    /\ IsWeightedAverage(obs.gaze[1], gaze_history, 1)

(***************************************************************************)
(* Properties of the decision loop's use of the frame and of the gaze      *)
(* tracker.                                                                *)
(***************************************************************************)
\* thread t fetches the frame in this step
FetchStep(t) == loop[t].pc = "get_frame" /\ loop'[t].pc # "get_frame"

\* C36: a tick that finds no frame is skipped: the loop goes back to its
\* while test without calling the detectors or the applier, and
\* is_protected, the applier, the record of the last tick, the tracker
\* records and the gaze history are unchanged; as long as no frame was ever
\* stored the controller is in its initial unprotected state.
C36_NoFrameNoTick ==
    [][ /\ \A t \in ThreadIds :
              (FetchStep(t) /\ current_frame = NoFrame) =>
                  /\ loop'[t].pc = "check"
                  /\ got' = NoFrame
                  /\ UNCHANGED <<is_protected, applierVars, tick,
                                 tracked_faces, gaze_history>>
        /\ TickStep => current_frame # NoFrame /\ got # NoFrame
        /\ stores' = <<>> =>
               ~is_protected' /\ ~sp_is_protected' /\ tick' = NoTick
      ]_vars

\* both loops run and nothing was stored yet: the decision loop is at its
\* fetch, which finds no frame, with the controller as it was constructed
C36_Witness ==
    /\ is_running /\ cam_is_running
    /\ stores = <<>> /\ current_frame = NoFrame /\ got = NoFrame
    /\ loop[1].pc = "get_frame"
    /\ capt[1].pc = "check" /\ device = 0
    /\ ~is_protected /\ tick = NoTick

(***************************************************************************)
(* The frame slot and its lock: the capture loop and the decision loop of  *)
(* a started application, statement by statement around the two            *)
(* `with self.frame_lock` blocks.  The detectors, the applier and the      *)
(* configuration are not followed.                                         *)
(***************************************************************************)
\* nobody holds the lock
Free == "free"

\* a lock that lets everybody in
lock_acquire_any(holder) == TRUE

\* threading.Lock.acquire, as `with` calls it: it returns when the lock is
\* free
lock_acquire(holder) == holder = Free

\* start_protection has returned True: both threads are at their while test
InitLock ==
    /\ is_running = TRUE
    /\ is_protected = FALSE
    /\ protection_thread = 1
    /\ loop = [t \in ThreadIds |-> IF t = 1 THEN [NewLoop EXCEPT !.pc = "check"]
                                   ELSE NewLoop]
    /\ cam_is_running = TRUE
    /\ camera = "opened"
    /\ capture_thread = 1
    /\ capt = [c \in ThreadIds |-> IF c = 1 THEN [NewCapt EXCEPT !.pc = "check"]
                                   ELSE NewCapt]
    /\ current_frame = NoFrame
    /\ device = 0
    /\ frame_lock = Free
    /\ call = Returned("start_protection", TRUE)
    /\ starts = 1
    /\ tick = NoTick
    /\ accepted_sensitivity = DefaultSection("protection")["sensitivity"]
    /\ stores = <<>>
    /\ got = NoFrame
    /\ ConfigAtRest /\ ApplierAtRest /\ DetectorAtRest /\ BotAtRest
    /\ tracked_faces = Unfollowed
    /\ gaze_history = Unfollowed
    /\ obs = Unfollowed

lockRestVars == <<configVars, applierVars, detectorVars, is_protected,
                  protection_thread, camera, capture_thread, starts, tick,
                  accepted_sensitivity, saved, tracked_faces, gaze_history,
                  obs, botVars>>

\* _capture_loop: while self.is_running
LockCaptCheck ==
    /\ capt[1].pc = "check"
    /\ capt' = [capt EXCEPT ![1].pc = capture_while(cam_is_running)]
    /\ UNCHANGED <<loop, current_frame, device, frame_lock, stores, got,
                   is_running, cam_is_running, call, lockRestVars>>

\* the camera test, self.camera.read() and _process_frame: a frame to store,
\* or a failed read and its sleep
LockCaptRead(ok) ==
    /\ capt[1].pc = "test"
    /\ IF ok /\ device < MaxFrames
       THEN /\ device' = device + 1
            /\ capt' = [capt EXCEPT ![1].pc = "acquire", ![1].frame = device + 1]
       ELSE /\ capt' = [capt EXCEPT ![1].pc = "sleep"]
            /\ UNCHANGED device
    /\ UNCHANGED <<loop, current_frame, frame_lock, stores, got, is_running,
                   cam_is_running, call, lockRestVars>>

\* with self.frame_lock: entering the block
LockCaptAcquire ==
    /\ capt[1].pc = "acquire"
    /\ lock_acquire(frame_lock)
    /\ frame_lock' = "capture"
    /\ capt' = [capt EXCEPT ![1].pc = "assign"]
    /\ UNCHANGED <<loop, current_frame, device, stores, got, is_running,
                   cam_is_running, call, lockRestVars>>

\* self.current_frame = processed_frame
LockCaptAssign ==
    /\ capt[1].pc = "assign"
    /\ current_frame' = capt[1].frame
    /\ stores' = Append(stores, capt[1].frame)
    /\ capt' = [capt EXCEPT ![1].pc = "release"]
    /\ UNCHANGED <<loop, device, frame_lock, got, is_running, cam_is_running,
                   call, lockRestVars>>

\* leaving the block
LockCaptRelease ==
    /\ capt[1].pc = "release"
    /\ frame_lock' = Free
    /\ capt' = [capt EXCEPT ![1].pc = "sleep"]
    /\ UNCHANGED <<loop, current_frame, device, stores, got, is_running,
                   cam_is_running, call, lockRestVars>>

\* _update_metrics and time.sleep(1.0 / self.fps)
LockCaptSleep ==
    /\ capt[1].pc = "sleep"
    /\ capt' = [capt EXCEPT ![1] = capture_iteration_done(1)]
    /\ UNCHANGED <<loop, current_frame, device, frame_lock, stores, got,
                   is_running, cam_is_running, call, lockRestVars>>

\* _protection_loop: while self.is_running, then the call of get_frame
LockLoopCheck ==
    /\ loop[1].pc = "check"
    /\ loop' = [loop EXCEPT ![1].pc =
                   IF loop_while(is_running) = "done" THEN "done" ELSE "acquire"]
    /\ UNCHANGED <<capt, current_frame, device, frame_lock, stores, got,
                   is_running, cam_is_running, call, lockRestVars>>

\* get_frame: with self.frame_lock, entering the block
LockLoopAcquire ==
    /\ loop[1].pc = "acquire"
    /\ lock_acquire(frame_lock)
    /\ frame_lock' = "decision"
    /\ loop' = [loop EXCEPT ![1].pc = "copy"]
    /\ UNCHANGED <<capt, current_frame, device, stores, got, is_running,
                   cam_is_running, call, lockRestVars>>

\* return self.current_frame.copy(), or None; a copy that raises leaves the
\* block as well and get_frame returns None
LockLoopCopy(ok) ==
    /\ loop[1].pc = "copy"
    /\ got' = IF ok THEN get_frame_result(current_frame) ELSE NoFrame
    /\ loop' = [loop EXCEPT ![1].pc = "release"]
    /\ UNCHANGED <<capt, current_frame, device, frame_lock, stores,
                   is_running, cam_is_running, call, lockRestVars>>

\* leaving the block; then the test of the frame
LockLoopRelease ==
    /\ loop[1].pc = "release"
    /\ frame_lock' = Free
    /\ loop' = [loop EXCEPT ![1].pc = after_get_frame(got)]
    /\ UNCHANGED <<capt, current_frame, device, stores, got, is_running,
                   cam_is_running, call, lockRestVars>>

\* detect_faces, track_gaze, _update_protection_state and the sleep of
\* _control_frame_rate, on the copy
LockLoopTick ==
    /\ loop[1].pc = "tick"
    /\ loop' = [loop EXCEPT ![1] = loop_iteration_done]
    /\ UNCHANGED <<capt, current_frame, device, frame_lock, stores, got,
                   is_running, cam_is_running, call, lockRestVars>>

\* stop_protection clears the controller's flag; its join may time out
LockStopProtection ==
    /\ is_running
    /\ is_running' = FALSE
    /\ call' = [pc |-> "join_loop", op |-> "stop_protection", ret |-> FALSE]
    /\ UNCHANGED <<loop, capt, current_frame, device, frame_lock, stores,
                   got, cam_is_running, lockRestVars>>

\* then CameraManager.stop clears the camera's
LockStopCamera ==
    /\ ~is_running /\ cam_is_running
    /\ cam_is_running' = FALSE
    /\ call' = Returned("stop_protection", TRUE)
    /\ UNCHANGED <<loop, capt, current_frame, device, frame_lock, stores,
                   got, is_running, lockRestVars>>

\* a step of one of the two threads
LockThreads ==
    \/ LockCaptCheck
    \/ \E ok \in BOOLEAN : LockCaptRead(ok)
    \/ LockCaptAcquire
    \/ LockCaptAssign
    \/ LockCaptRelease
    \/ LockCaptSleep
    \/ LockLoopCheck
    \/ LockLoopAcquire
    \/ \E ok \in BOOLEAN : LockLoopCopy(ok)
    \/ LockLoopRelease
    \/ LockLoopTick

NextLock == LockThreads \/ LockStopProtection \/ LockStopCamera

SpecLock == InitLock /\ [][NextLock]_vars

\* the statements of each loop inside its `with self.frame_lock` block
CaptureInside == capt[1].pc \in {"assign", "release"}
DecisionInside == loop[1].pc \in {"copy", "release"}

\* C37: the frame slot is guarded by one lock: the capture loop and
\* get_frame are never inside the critical section together; the capture
\* loop holds the lock for the assignment only and get_frame for the copy
\* only, never across a device read, the detection or a sleep; and the two
\* loops never deadlock: while a thread is alive some thread can step.
C37_OneLockNoDeadlock ==
    /\ ~(CaptureInside /\ DecisionInside)
    /\ (frame_lock = "capture") = CaptureInside
    /\ (frame_lock = "decision") = DecisionInside
    /\ frame_lock \in {Free, "capture", "decision"}
    /\ frame_lock # Free =>
           /\ capt[1].pc \notin {"test", "sleep"} \/ frame_lock # "capture"
           /\ loop[1].pc \notin {"tick", "check"} \/ frame_lock # "decision"
    /\ (capt[1].pc # "done" \/ loop[1].pc # "done") => ENABLED LockThreads

\* the capture loop is inside the block with its second frame while
\* get_frame waits for the lock
C37_Witness ==
    /\ frame_lock = "capture" /\ capt[1].pc = "assign"
    /\ loop[1].pc = "acquire"
    /\ current_frame # NoFrame /\ capt[1].frame # current_frame

(***************************************************************************)
(* Properties of the cap on the faces.                                     *)
(***************************************************************************)
\* what the detector that was used yielded for the frame of the last call,
\* in its output order
Yielded(o) ==
    IF o.fallback_ran THEN detect_with_opencv(o.fallback)
    ELSE detect_with_mediapipe(o.primary, confidence_threshold)

\* the box and the confidence of a face
Found(face) == <<face.bbox, face.confidence>>

\* C38: detect_faces returns at most max_faces faces; when the detector
\* yields more, the result is the first max_faces of them in the detector's
\* output order, not the most confident ones.
C38_FirstMaxFaces ==
    [][ obs'.op = "detect_faces" =>
            LET yielded == Yielded(obs')
                n == IF Len(yielded) > fd_max_faces THEN fd_max_faces
                     ELSE Len(yielded)
            IN /\ Len(obs'.faces) <= fd_max_faces
               /\ Len(obs'.faces) = n
               /\ \A i \in 1..n : Found(obs'.faces[i]) = Found(yielded[i])
      ]_vars

\* two faces were found, the more confident one second, and with max_faces 1
\* the first was returned
C38_Witness ==
    /\ obs.op = "detect_faces"
    /\ fd_max_faces = 1
    /\ Len(Yielded(obs)) = 2
    /\ Yielded(obs)[1].confidence < Yielded(obs)[2].confidence
    /\ Len(obs.faces) = 1
    /\ obs.faces[1].bbox = Yielded(obs)[1].bbox

(***************************************************************************)
(* Properties of import_config.                                            *)
(***************************************************************************)
\* C39: an import_config call that returns False (file missing, document
\* empty, a required section missing, or the save failing) leaves the
\* in-memory configuration exactly as it was before the call.
C39_FailedImportChangesNothing ==
    [][ (obs'.op = "import_config" /\ ~obs'.ret) =>
            Deep(heap', cm_config') = Deep(heap, cm_config)
      ]_vars

\* C40: the history changes only when track_gaze produces an estimate: a
\* call that returns nothing because tracking is disabled, no landmarks
\* were found or an eye is closed leaves it unchanged, and a tick without a
\* face does not call track_gaze and leaves it unchanged as well.
C40_HistoryChangesWithEstimateOnly ==
    [][ /\ gaze_history' # gaze_history => Estimated(obs')
        /\ ( /\ obs'.op = "track_gaze"
             /\ \/ ~gt_enabled
                \/ ~obs'.mesh
                \/ CountsAsClosed(obs'.left)
                \/ CountsAsClosed(obs'.right) )
               => obs'.gaze = NoGaze /\ gaze_history' = gaze_history
        /\ obs'.gaze = NoGaze => gaze_history' = gaze_history
        /\ ~loop_track_gaze(NoFaces, gt_enabled, TRUE, OpenEye, OpenEye,
                            <<0, 0>>, gaze_history).called
        /\ obs'.op = "no_face" =>
               obs'.gaze = NoGaze /\ gaze_history' = gaze_history
      ]_vars

\* with a full history, a call that found landmarks and a closed left eye
\* returned nothing and left the history as it found it
C40_Witness ==
    /\ obs.op = "track_gaze" /\ gt_enabled /\ obs.mesh
    /\ obs.left = ClosedEye /\ obs.right = OpenEye
    /\ obs.gaze = NoGaze
    /\ Len(obs.before) = 5 /\ gaze_history = obs.before

====
